---- MODULE Spec2Model ----
(***************************************************************************)
(* Model of the MediQuery HPO knowledge-graph builder (src/HPO).           *)
(*                                                                         *)
(* A Python str is a sequence of one-character strings, so that split,     *)
(* strip, string comparison and iteration over a str are computed as the   *)
(* code computes them.  The graph store (Neo4j) is the record `sink`; a    *)
(* Cypher statement is an operator from sink to sink.  A property that the *)
(* store has not been given is None (the empty tuple), a property with     *)
(* value v is Some(v).                                                     *)
(***************************************************************************)
EXTENDS Integers, Sequences, FiniteSets, TLC

\* ------------------------------------------------------------------ bounds
\* Largest number of [Term] lines of a generated ontology file.
MaxTerms == 3
\* Largest number of is_a lines of a generated ontology file.
MaxIsA == 2
\* Largest number of data rows of a generated annotation file.
MaxRows == 2
\* Largest batch size B a run is configured with.
MaxBatchSize == 2
\* Number of phenotype terms in the sink of the analytics specification.
NumPhens == 7
\* Largest number of diseases in the sink of the analytics specification.
MaxDiseases == 7

\* ------------------------------------------------------- Python str values
None == <<>>
Some(v) == <<v>>

\* The characters the model uses, in code-point order.
Alphabet ==
  <<"\t", "\n", " ", "!", "\"", "#",
    "0", "1", "2", "3", "4", "5", "6", "7", "8", "9", ":",
    "A", "D", "H", "I", "M", "O", "P", "T", "[", "]", "_",
    "a", "c", "d", "e", "f", "i", "l", "m", "n", "o", "r", "s", "t", "x", "y">>

CharOrd(c) == CHOOSE i \in 1..Len(Alphabet) : Alphabet[i] = c

Digits == <<"0", "1", "2", "3", "4", "5", "6", "7", "8", "9">>

IsDigit(c) == \E i \in 1..10 : Digits[i] = c

DigitVal(c) == (CHOOSE i \in 1..10 : Digits[i] = c) - 1

Whitespace == {" ", "\t", "\n"}

\* str.__le__: lexicographic comparison by code point.
StrLeq(a, b) ==
  LET n == IF Len(a) <= Len(b) THEN Len(a) ELSE Len(b)
      diff == {i \in 1..n : a[i] # b[i]}
  IN  IF diff = {} THEN Len(a) <= Len(b)
      ELSE LET i == CHOOSE x \in diff : \A y \in diff : x <= y
           IN  CharOrd(a[i]) < CharOrd(b[i])

\* c in s
Contains(s, c) == \E i \in 1..Len(s) : s[i] = c

\* Index of the first c in s, 0 when there is none.
IndexOf(s, c) ==
  IF Contains(s, c) THEN CHOOSE i \in 1..Len(s) : s[i] = c /\ \A j \in 1..(i - 1) : s[j] # c
  ELSE 0

\* s.split(c): the pieces of s between the occurrences of c.
RECURSIVE Split(_, _)
Split(s, c) ==
  LET i == IndexOf(s, c)
  IN  IF i = 0 THEN <<s>>
      ELSE <<SubSeq(s, 1, i - 1)>> \o Split(SubSeq(s, i + 1, Len(s)), c)

\* s.split(c, 1): s cut at the first c only.
SplitOnce(s, c) ==
  LET i == IndexOf(s, c)
  IN  IF i = 0 THEN <<s>>
      ELSE <<SubSeq(s, 1, i - 1), SubSeq(s, i + 1, Len(s))>>

RECURSIVE LStrip(_)
LStrip(s) == IF s # <<>> /\ s[1] \in Whitespace THEN LStrip(Tail(s)) ELSE s

RECURSIVE RStrip(_)
RStrip(s) ==
  IF s # <<>> /\ s[Len(s)] \in Whitespace THEN RStrip(SubSeq(s, 1, Len(s) - 1)) ELSE s

\* s.strip()
Strip(s) == RStrip(LStrip(s))

\* s.startswith(p)
StartsWith(s, p) == Len(s) >= Len(p) /\ SubSeq(s, 1, Len(p)) = p

\* int(s) for a str s: ok is FALSE where Python raises ValueError.
RECURSIVE DigitsValue(_)
DigitsValue(s) ==
  IF s = <<>> THEN 0 ELSE 10 * DigitsValue(SubSeq(s, 1, Len(s) - 1)) + DigitVal(s[Len(s)])

ParseInt(s) ==
  LET t == Strip(s)
  IN  IF t # <<>> /\ \A i \in 1..Len(t) : IsDigit(t[i])
      THEN [ok |-> TRUE, val |-> DigitsValue(t)]
      ELSE [ok |-> FALSE, val |-> 0]

\* The decimal digits of n, zero-padded to width w (the format of an HPO id).
RECURSIVE PadDigits(_, _)
PadDigits(n, w) ==
  IF w = 0 THEN <<>> ELSE PadDigits(n \div 10, w - 1) \o <<Digits[(n % 10) + 1]>>

\* The identifier 'HP:NNNNNNN'.
HpoId(n) == <<"H", "P", ":">> \o PadDigits(n, 7)

\* ------------------------------------------------------ category classifier
\* graph.py: the dict of (start, end) -> category, in insertion order.
GraphCategories ==
  << <<0, 1999, "Morphology">>,
     <<2000, 2999, "Neurological">>,
     <<3000, 3999, "Behavioral">>,
     <<4000, 4999, "Metabolic">>,
     <<5000, 5999, "Cardiovascular">>,
     <<6000, 6999, "Respiratory">>,
     <<7000, 7999, "Digestive">>,
     <<8000, 8999, "Musculoskeletal">>,
     <<9000, 9999, "Immunological">>,
     <<10000, 10999, "Growth">>,
     <<11000, 11999, "Cellular">>,
     <<12000, 12999, "Constitutional">> >>

\* phenotype.py: self.categories, a list of (start id, end id, category); the
\* numbers are the suffixes of the ids 'HP:NNNNNNN' the list holds.
PhenotypeRanges ==
  << <<5, 1999, "Inheritance">>,
     <<118, 1416, "Morphology">>,
     <<707, 1626, "Nervous System">>,
     <<1574, 1780, "Integument">>,
     <<478, 612, "Eye">>,
     <<598, 706, "Ear">>,
     <<818, 933, "Skeletal system">>,
     <<1197, 1574, "Connective Tissue">>,
     <<1507, 1573, "Growth">>,
     <<1574, 1780, "Constitutional Symptom">>,
     <<1781, 2060, "Limbs">>,
     <<2061, 3128, "Musculature">>,
     <<152, 589, "Head/Neck">>,
     <<1608, 1621, "Voice">>,
     <<1626, 1869, "Cardiovascular">>,
     <<1871, 2087, "Blood">>,
     <<2086, 2250, "Respiratory">>,
     <<2242, 3011, "Abdomen">>,
     <<118, 118, "Genitourinary system">>,
     <<1939, 1939, "Metabolism/Homeostasis">>,
     <<1871, 2597, "Endocrine">>,
     <<2715, 4431, "Immunology">>,
     <<4325, 4332, "Oncology">>,
     <<32223, 33127, "Multisystem Disorder">> >>

PhenotypeCategories ==
  [i \in 1..Len(PhenotypeRanges) |->
     <<HpoId(PhenotypeRanges[i][1]), HpoId(PhenotypeRanges[i][2]), PhenotypeRanges[i][3]>>]

\* The category of the first rule of `rules` among those, `hits`, whose range
\* holds the id (the loop returns at the first hit); "Other" when there is none.
FirstRule(rules, hits) ==
  IF hits = {} THEN "Other"
  ELSE rules[CHOOSE i \in hits : \A j \in hits : i <= j][3]

\* graph.py _determine_category for a str hpo_id.
GraphDetermineCategory(hpo_id) ==
  LET parts == Split(hpo_id, ":")
      num == IF Contains(hpo_id, ":") THEN ParseInt(parts[2]) ELSE [ok |-> TRUE, val |-> 0]
      InRange(rule) == rule[1] <= num.val /\ num.val <= rule[2]
  IN  IF ~num.ok THEN "Other"
      ELSE FirstRule(GraphCategories,
                     {i \in 1..Len(GraphCategories) : InRange(GraphCategories[i])})

\* phenotype.py _determine_category for a str hpo_id.
PhenotypeDetermineCategory(hpo_id) ==
  LET InRange(rule) == StrLeq(rule[1], hpo_id) /\ StrLeq(hpo_id, rule[2])
  IN  IF hpo_id = <<>> THEN "Other"
      ELSE FirstRule(PhenotypeCategories,
                     {i \in 1..Len(PhenotypeCategories) : InRange(PhenotypeCategories[i])})

\* The two builds of the pipeline: graph.py alone ("graph"), and
\* knowledge_graph_builder.py with phenotype.py, disease.py, graph_enhancer.py.
Impls == {"graph", "modular"}

DetermineCategory(im, hpo_id) ==
  IF im = "graph" THEN GraphDetermineCategory(hpo_id) ELSE PhenotypeDetermineCategory(hpo_id)

\* ------------------------------------------------------------ Python values
\* A value of the parsed term: a str, or a list of str (a repeated key).
Str(s) == [kind |-> "str", v |-> s]
List(items) == [kind |-> "list", v |-> items]

\* A dict is the sequence of its (key, value) entries in insertion order.
DictHas(d, k) == \E i \in 1..Len(d) : d[i].k = k

DictGet(d, k, default) ==
  IF DictHas(d, k) THEN d[CHOOSE i \in 1..Len(d) : d[i].k = k].v ELSE default

DictSet(d, k, val) ==
  IF DictHas(d, k)
  THEN [i \in 1..Len(d) |-> IF d[i].k = k THEN [k |-> k, v |-> val] ELSE d[i]]
  ELSE Append(d, [k |-> k, v |-> val])

KeyId == <<"i", "d">>
KeyName == <<"n", "a", "m", "e">>
KeyDef == <<"d", "e", "f">>
KeyIsA == <<"i", "s", "_", "a">>
KeySynonym == <<"s", "y", "n", "o", "n", "y", "m">>
KeyComment == <<"c", "o", "m", "m", "e", "n", "t">>
KeyXref == <<"x", "r", "e", "f">>
TermMarker == <<"[", "T", "e", "r", "m", "]">>

\* ------------------------------------------------------------ the graph sink
\* phen: Phenotype nodes by id; isa: IS_A edges (child, parent); dis: Disease
\* nodes by id; hasp: HAS_PHENOTYPE edges (disease, phenotype); assoc:
\* ASSOCIATED_WITH edges (p1, p2).  Functions, so MERGE cannot duplicate.
EmptySink ==
  [phen |-> [x \in {} |-> 0], isa |-> {}, dis |-> [x \in {} |-> 0],
   hasp |-> [x \in {} |-> 0], assoc |-> [x \in {} |-> 0]]

\* f with key k bound to val (created when absent).
Put(f, k, val) == (k :> val) @@ f

\* MERGE (p:Phenotype {id: node.id}) SET p.name = ..., p.category = ...
MergePhenotype(phen, node) ==
  LET old == IF node.id \in DOMAIN phen THEN phen[node.id]
             ELSE [name |-> None, definition |-> None, synonyms |-> None,
                   category |-> None, comment |-> None, xrefs |-> None,
                   cluster_id |-> None, cluster_size |-> None,
                   degree_centrality |-> None, betweenness_score |-> None,
                   is_hub |-> None, cluster_coefficient |-> None,
                   prevalence |-> None, connectivity |-> None, specificity |-> None,
                   hierarchical_level |-> None, leaf_node |-> None]
  IN  Put(phen, node.id,
          [old EXCEPT !.name = Some(node.name), !.definition = Some(node.definition),
                      !.synonyms = Some(node.synonyms), !.category = Some(node.category),
                      !.comment = Some(node.comment), !.xrefs = Some(node.xrefs)])

\* UNWIND $nodes AS node: the rows are applied in order, so the last node of an
\* id sets its properties.
UpsertNodes(s, nodes) ==
  LET ids == {nodes[i].id : i \in 1..Len(nodes)}
      LastOf(id) ==
        nodes[CHOOSE i \in 1..Len(nodes) :
                nodes[i].id = id /\ \A j \in (i + 1)..Len(nodes) : nodes[j].id # id]
  IN  [s EXCEPT !.phen = [id \in ids |-> MergePhenotype(s.phen, LastOf(id))[id]] @@ @]

\* A relationship statement that merges the edge without matching its ends.
UpsertRelationshipsUnmatched(s, rels) ==
  [s EXCEPT !.isa = @ \cup {<<rels[i].child_id, Str(rels[i].parent_id)>> : i \in 1..Len(rels)}]

\* MATCH (child), MATCH (parent), MERGE (child)-[:IS_A]->(parent): a row whose
\* child or parent does not match yields nothing.
UpsertRelationships(s, rels) ==
  LET matched == {i \in 1..Len(rels) :
                    rels[i].child_id \in DOMAIN s.phen /\ Str(rels[i].parent_id) \in DOMAIN s.phen}
  IN  [s EXCEPT !.isa = @ \cup {<<rels[i].child_id, Str(rels[i].parent_id)>> : i \in matched}]

IsNodeItem(item) == "type" \notin DOMAIN item
IsRelationshipItem(item) == "type" \in DOMAIN item /\ item.type = "relationship"

\* A _process_batch whose handler prints the exception and does not re-raise.
ProcessBatchNoReraise(s, batch, raiseAt) ==
  LET nodes == SelectSeq(batch, IsNodeItem)
      rels == SelectSeq(batch, IsRelationshipItem)
      nodesRaise == nodes # <<>> /\ raiseAt = 1
      relsRun == IF nodes # <<>> THEN 2 ELSE 1
      relsRaise == ~nodesRaise /\ rels # <<>> /\ raiseAt = relsRun
      s1 == IF nodes # <<>> /\ ~nodesRaise THEN UpsertNodes(s, nodes) ELSE s
      s2 == IF ~nodesRaise /\ rels # <<>> /\ ~relsRaise THEN UpsertRelationships(s1, rels)
            ELSE s1
  IN  [sink |-> s2, sinkRaised |-> nodesRaise \/ relsRaise, error |-> FALSE]

\* _process_batch.  raiseAt = n > 0: the sink raises on the n-th session.run
\* of this call.  sinkRaised: a session.run raised; error: the exception leaves
\* _process_batch (the handler re-raises).
ProcessBatch(s, batch, raiseAt) ==
  LET nodes == SelectSeq(batch, IsNodeItem)
      rels == SelectSeq(batch, IsRelationshipItem)
      nodesRaise == nodes # <<>> /\ raiseAt = 1
      relsRun == IF nodes # <<>> THEN 2 ELSE 1
      relsRaise == ~nodesRaise /\ rels # <<>> /\ raiseAt = relsRun
      s1 == IF nodes # <<>> /\ ~nodesRaise THEN UpsertNodes(s, nodes) ELSE s
      s2 == IF ~nodesRaise /\ rels # <<>> /\ ~relsRaise THEN UpsertRelationships(s1, rels)
            ELSE s1
  IN  [sink |-> s2, sinkRaised |-> nodesRaise \/ relsRaise,
       error |-> nodesRaise \/ relsRaise]

\* ------------------------------------------------- term ingestion (OBO file)
\* _determine_category(current_term.get('id', '')): a str is classified.  A list
\* (a repeated id key): in graph.py ':' in hpo_id asks for a member equal to
\* ':', without one id_num = 0, with one hpo_id.split raises AttributeError,
\* which the handler turns into 'Other'; in phenotype.py the comparison of a
\* str with a list raises TypeError (a non-empty list is truthy).
CategoryOf(im, id) ==
  IF id.kind = "str" THEN [ok |-> TRUE, v |-> DetermineCategory(im, id.v)]
  ELSE IF im = "graph"
  THEN IF \E i \in 1..Len(id.v) : id.v[i] = <<":">>
       THEN [ok |-> TRUE, v |-> "Other"]
       ELSE [ok |-> TRUE, v |-> FirstRule(GraphCategories,
                                          {i \in 1..Len(GraphCategories) :
                                             GraphCategories[i][1] <= 0 /\ 0 <= GraphCategories[i][2]})]
  ELSE IF id.v = <<>> THEN [ok |-> TRUE, v |-> "Other"]
  ELSE [ok |-> FALSE, v |-> "Other"]

\* current_term.get('def', '').split('"')[1] if 'def' in current_term else ''
DefinitionOf(cur) ==
  IF ~DictHas(cur, KeyDef) THEN [ok |-> TRUE, v |-> <<>>]
  ELSE LET d == DictGet(cur, KeyDef, Str(<<>>))
           parts == Split(d.v, "\"")
       IN  IF d.kind = "str" /\ Len(parts) >= 2 THEN [ok |-> TRUE, v |-> parts[2]]
           ELSE [ok |-> FALSE, v |-> <<>>]

\* for parent in current_term['is_a']: the items of a list, the characters of a str.
IterValues(val) ==
  IF val.kind = "list" THEN val.v ELSE [i \in 1..Len(val.v) |-> <<val.v[i]>>]

\* The relationship records of one term: parent_id = parent.split(' ')[0].
IsARecords(cur) ==
  IF ~DictHas(cur, KeyIsA) THEN <<>>
  ELSE LET parents == IterValues(DictGet(cur, KeyIsA, Str(<<>>)))
       IN  [i \in 1..Len(parents) |->
              [child_id |-> DictGet(cur, KeyId, Str(<<>>)),
               parent_id |-> Split(parents[i], " ")[1],
               type |-> "relationship"]]

\* The node record of one term.
NodeRecord(im, cur) ==
  [id |-> DictGet(cur, KeyId, Str(<<>>)),
   name |-> DictGet(cur, KeyName, Str(<<>>)),
   definition |-> DefinitionOf(cur).v,
   synonyms |-> DictGet(cur, KeySynonym, List(<<>>)),
   comment |-> DictGet(cur, KeyComment, Str(<<>>)),
   xrefs |-> DictGet(cur, KeyXref, List(<<>>)),
   category |-> CategoryOf(im, DictGet(cur, KeyId, Str(<<>>))).v]

\* key in current_term: append to a list, promote a str to a list, or set.
Accumulate(cur, key, value) ==
  IF DictHas(cur, key)
  THEN LET old == DictGet(cur, key, Str(<<>>))
       IN  IF old.kind = "list" THEN DictSet(cur, key, List(Append(old.v, value)))
           ELSE DictSet(cur, key, List(<<old.v, value>>))
  ELSE DictSet(cur, key, Str(value))

\* The locals of process_obo_file at its start, over the sink s.
OboStart(s, log) ==
  [current_term |-> <<>>, batch |-> <<>>, terms_processed |-> 0,
   relationships_created |-> 0, sink |-> s, sent |-> log,
   sinkRaised |-> FALSE, error |-> FALSE]

\* if len(batch) >= self.batch_size: self._process_batch(session, batch); batch = []
FlushIfFull(st, B, raiseAt) ==
  IF Len(st.batch) >= B
  THEN LET r == ProcessBatch(st.sink, st.batch, raiseAt)
       IN  [st EXCEPT !.sink = r.sink, !.sent = Append(@, st.batch),
                      !.sinkRaised = r.sinkRaised, !.error = r.error,
                      !.batch = IF r.error THEN @ ELSE <<>>]
  ELSE st

\* One iteration of the loop over the lines of the file (graph.py 110-156,
\* phenotype.py 67-111).
OboLine(im, B, st, raw, raiseAt) ==
  LET line == Strip(raw)
      cur == st.current_term
  IN  IF line = TermMarker
      THEN LET emits == cur # <<>> /\ DictHas(cur, KeyId)
               parseOk == ~emits
                          \/ (CategoryOf(im, DictGet(cur, KeyId, Str(<<>>))).ok
                              /\ DefinitionOf(cur).ok)
               rels == IF emits THEN IsARecords(cur) ELSE <<>>
               st1 == IF emits
                      THEN [st EXCEPT !.batch = Append(@, NodeRecord(im, cur)) \o rels,
                                      !.terms_processed = @ + 1,
                                      !.relationships_created = @ + Len(rels)]
                      ELSE st
               st2 == FlushIfFull(st1, B, raiseAt)
           IN  IF ~parseOk THEN [st EXCEPT !.error = TRUE]
               ELSE IF st2.error THEN st2
               ELSE [st2 EXCEPT !.current_term = <<>>]
      ELSE IF Contains(line, ":")
      THEN LET kv == SplitOnce(line, ":")
           IN  [st EXCEPT !.current_term = Accumulate(cur, Strip(kv[1]), Strip(kv[2]))]
      ELSE st

\* The end of the loop without the flush of the records still in the batch.
OboEndNoFlush(st, raiseAt) ==
  [st EXCEPT !.batch = <<>>]

\* After the loop: if batch: self._process_batch(session, batch)
OboEnd(st, raiseAt) ==
  IF st.batch # <<>>
  THEN LET r == ProcessBatch(st.sink, st.batch, raiseAt)
       IN  [st EXCEPT !.sink = r.sink, !.sent = Append(@, st.batch),
                      !.sinkRaised = r.sinkRaised, !.error = r.error,
                      !.batch = IF r.error THEN @ ELSE <<>>]
  ELSE st

\* process_obo_file over a whole file, the sink never raising.
RECURSIVE OboLines(_, _, _, _)
OboLines(im, B, st, lines) ==
  IF lines = <<>> \/ st.error THEN st
  ELSE IF Len(lines) = 1 THEN OboLine(im, B, st, lines[1], 0)
  ELSE LET h == Len(lines) \div 2
       IN  OboLines(im, B, OboLines(im, B, st, SubSeq(lines, 1, h)),
                    SubSeq(lines, h + 1, Len(lines)))

ProcessOboFile(im, B, s, lines) ==
  LET st == OboLines(im, B, OboStart(s, <<>>), lines)
  IN  IF st.error THEN st ELSE OboEnd(st, 0)

\* ------------------------------------------- annotation ingestion (HPOA file)
\* MERGE (d:Disease {id}) SET d.name; MATCH (p:Phenotype {id}); MERGE
\* (d)-[r:HAS_PHENOTYPE]->(p) SET r.evidence, r.frequency, r.onset.  The Disease
\* is merged before the MATCH, so it is kept when the phenotype is unknown.
\* The rows are applied in order: the last row of a key sets its properties.
UpsertAnnotations(s, annotations) ==
  LET n == Len(annotations)
      D(i) == Str(annotations[i].disease_id)
      P(i) == Str(annotations[i].phenotype_id)
      Last(I) == CHOOSE i \in I : \A j \in I : j <= i
      linked == {i \in 1..n : P(i) \in DOMAIN s.phen}
      dis == [d \in {D(i) : i \in 1..n} |->
                [name |-> annotations[Last({i \in 1..n : D(i) = d})].disease_name]]
      hasp == [e \in {<<D(i), P(i)>> : i \in linked} |->
                 LET a == annotations[Last({i \in linked : <<D(i), P(i)>> = e})]
                 IN  [evidence |-> a.evidence, frequency |-> a.frequency, onset |-> a.onset]]
  IN  [s EXCEPT !.dis = dis @@ @, !.hasp = hasp @@ @]

\* _process_annotation_batch: one session.run, which raises when raiseAt = 1.
ProcessAnnotationBatch(s, batch, raiseAt) ==
  IF raiseAt = 1 THEN [sink |-> s, sinkRaised |-> TRUE, error |-> TRUE]
  ELSE [sink |-> UpsertAnnotations(s, batch), sinkRaised |-> FALSE, error |-> FALSE]

\* parts[i] if len(parts) > i else '' (i counted from 0 in the code).
FieldOr(parts, i) == IF Len(parts) > i THEN parts[i + 1] ELSE <<>>

\* The locals of process_phenotype_annotations after next(file) skipped the header.
HpoaStart(s, log) ==
  [batch |-> <<>>, diseases_processed |-> 0, relationships_created |-> 0,
   sink |-> s, sent |-> log, sinkRaised |-> FALSE, error |-> FALSE]

\* One iteration of the loop over the rows (graph.py 221-242, disease.py 30-51).
HpoaLine(B, st, raw, raiseAt) ==
  LET parts == Split(Strip(raw), "\t")
  IN  IF StartsWith(raw, <<"#">>) THEN st
      ELSE IF Len(parts) >= 4
      THEN LET annotation == [disease_id |-> parts[1], disease_name |-> parts[2],
                              phenotype_id |-> parts[4], evidence |-> FieldOr(parts, 5),
                              frequency |-> FieldOr(parts, 8), onset |-> FieldOr(parts, 9)]
               b == Append(st.batch, annotation)
               st1 == [st EXCEPT !.batch = b, !.diseases_processed = @ + 1,
                                 !.relationships_created = @ + 1]
           IN  IF Len(b) >= B
               THEN LET r == ProcessAnnotationBatch(st.sink, b, raiseAt)
                    IN  [st1 EXCEPT !.sink = r.sink, !.sent = Append(@, b),
                                    !.sinkRaised = r.sinkRaised, !.error = r.error,
                                    !.batch = IF r.error THEN @ ELSE <<>>]
               ELSE st1
      ELSE st

\* After the loop: if batch: self._process_annotation_batch(session, batch)
HpoaEnd(st, raiseAt) ==
  IF st.batch # <<>>
  THEN LET r == ProcessAnnotationBatch(st.sink, st.batch, raiseAt)
       IN  [st EXCEPT !.sink = r.sink, !.sent = Append(@, st.batch),
                      !.sinkRaised = r.sinkRaised, !.error = r.error,
                      !.batch = IF r.error THEN @ ELSE <<>>]
  ELSE st

\* process_phenotype_annotations over the rows after the header, the sink
\* never raising.
RECURSIVE HpoaLines(_, _, _)
HpoaLines(B, st, lines) ==
  IF lines = <<>> \/ st.error THEN st
  ELSE IF Len(lines) = 1 THEN HpoaLine(B, st, lines[1], 0)
  ELSE LET h == Len(lines) \div 2
       IN  HpoaLines(B, HpoaLines(B, st, SubSeq(lines, 1, h)), SubSeq(lines, h + 1, Len(lines)))

ProcessPhenotypeAnnotations(B, s, lines) ==
  LET st == HpoaLines(B, HpoaStart(s, <<>>), lines)
  IN  IF st.error THEN st ELSE HpoaEnd(st, 0)

\* ------------------------------------------------------ association mining
\* co_occurrences >= 5
MinCoOccurrence == 5
\* batch_size = 100: phenotypes per page of create_symptom_relationships.
MinePageSize == 100
\* CASE WHEN connections > 10
HubThreshold == 10

\* ORDER BY p.id: the ids of `ids` in ascending order.
RECURSIVE SortIds(_)
SortIds(ids) ==
  IF ids = {} THEN <<>>
  ELSE LET m == CHOOSE x \in ids : \A y \in ids : StrLeq(x.v, y.v)
       IN  <<m>> \o SortIds(ids \ {m})

\* MATCH (p:Phenotype) RETURN p.id ORDER BY p.id
PhenotypeIds(s) == SortIds(DOMAIN s.phen)

\* The HAS_PHENOTYPE edges into p.
EdgesInto(s, p) == {h \in DOMAIN s.hasp : h[2] = p}

\* (p1)<-[:HAS_PHENOTYPE]-(d:Disease)-[:HAS_PHENOTYPE]->(p2), COUNT(d): one row
\* for each disease with an edge to p1 and another edge to p2.
CoOccurrences(s, p1, p2) ==
  Cardinality({d \in DOMAIN s.dis : <<d, p1>> \in DOMAIN s.hasp /\ <<d, p2>> \in DOMAIN s.hasp})

\* A threshold that asks for more than 5 shared diseases.
PassesThresholdStrict(co) == co > MinCoOccurrence

\* WHERE co_occurrences >= 5
PassesThreshold(co) == co >= MinCoOccurrence

\* A total that counts the HAS_PHENOTYPE edges into the target p2.
TotalOccurrencesOfTarget(s, p1, p2) == Cardinality(EdgesInto(s, p2))

\* MATCH (p1)<-[r1:HAS_PHENOTYPE]-() ... COUNT(r1) as total_occurrences, for the
\* edge p1 -> p2.
TotalOccurrences(s, p1, p2) == Cardinality(EdgesInto(s, p1))

\* A miner that adds the new count to the count an existing edge carries.
MinePageAccumulating(s, page) ==
  LET rows == {e \in (DOMAIN s.phen) \X (DOMAIN s.phen) :
                 /\ \E i \in 1..Len(page) : page[i] = e[1]
                 /\ e[1] # e[2]
                 /\ CoOccurrences(s, e[1], e[2]) >= MinCoOccurrence}
      Old(e) == IF e \in DOMAIN s.assoc THEN s.assoc[e]
                ELSE [co_occurrence_count |-> None, correlation_strength |-> None,
                      cross_cluster |-> None, cluster_connection_strength |-> None]
      Count(e) == IF Old(e).co_occurrence_count = None THEN CoOccurrences(s, e[1], e[2])
                  ELSE Old(e).co_occurrence_count[1] + CoOccurrences(s, e[1], e[2])
  IN  [s EXCEPT !.assoc =
         [e \in (DOMAIN s.assoc) \cup rows |->
            IF e \in rows
            THEN [Old(e) EXCEPT
                    !.co_occurrence_count = Some(Count(e)),
                    !.correlation_strength =
                       Some(<<Count(e), Cardinality(EdgesInto(s, e[1]))>>)]
            ELSE s.assoc[e]]]

\* Rows that keep one direction of every pair: p1 before p2 in the id order.
MineRowsOneWay(s, page) ==
  {e \in (DOMAIN s.phen) \X (DOMAIN s.phen) :
     /\ \E i \in 1..Len(page) : page[i] = e[1]
     /\ e[1] # e[2]
     /\ StrLeq(e[1].v, e[2].v)
     /\ CoOccurrences(s, e[1], e[2]) >= 1
     /\ PassesThreshold(CoOccurrences(s, e[1], e[2]))}

\* The rows (p1, p2) of one page that reach the MERGE.
MineRows(s, page) ==
  {e \in (DOMAIN s.phen) \X (DOMAIN s.phen) :
     /\ \E i \in 1..Len(page) : page[i] = e[1]
     /\ e[1] # e[2]
     /\ CoOccurrences(s, e[1], e[2]) >= 1
     /\ PassesThreshold(CoOccurrences(s, e[1], e[2]))}

\* A miner whose pairs are taken inside the page only: p2 is looked up among
\* the ids of the page.
MinePageWithinPage(s, page) ==
  LET rows == {e \in MineRows(s, page) : \E i \in 1..Len(page) : page[i] = e[2]}
      Old(e) == IF e \in DOMAIN s.assoc THEN s.assoc[e]
                ELSE [co_occurrence_count |-> None, correlation_strength |-> None,
                      cross_cluster |-> None, cluster_connection_strength |-> None]
  IN  [s EXCEPT !.assoc =
         [e \in (DOMAIN s.assoc) \cup rows |->
            IF e \in rows
            THEN [Old(e) EXCEPT
                    !.co_occurrence_count = Some(CoOccurrences(s, e[1], e[2])),
                    !.correlation_strength =
                       Some(<<CoOccurrences(s, e[1], e[2]), TotalOccurrences(s, e[1], e[2])>>)]
            ELSE s.assoc[e]]]

\* MERGE (p1)-[r:ASSOCIATED_WITH]->(p2) SET r.co_occurrence_count,
\* r.correlation_strength (the fraction co / total as <<co, total>>).
MinePage(s, page) ==
  LET rows == MineRows(s, page)
      Old(e) == IF e \in DOMAIN s.assoc THEN s.assoc[e]
                ELSE [co_occurrence_count |-> None, correlation_strength |-> None,
                      cross_cluster |-> None, cluster_connection_strength |-> None]
  IN  [s EXCEPT !.assoc =
         [e \in (DOMAIN s.assoc) \cup rows |->
            IF e \in rows
            THEN [Old(e) EXCEPT
                    !.co_occurrence_count = Some(CoOccurrences(s, e[1], e[2])),
                    !.correlation_strength =
                       Some(<<CoOccurrences(s, e[1], e[2]), TotalOccurrences(s, e[1], e[2])>>)]
            ELSE s.assoc[e]]]

\* for i in range(0, total, batch_size): batch = phenotypes[i:i + batch_size],
\* with batch_size = P, from the page that starts at index i.
RECURSIVE MinePagesOfSize(_, _, _, _)
MinePagesOfSize(s, ids, i, P) ==
  IF i >= Len(ids) THEN s
  ELSE LET upto == IF i + P < Len(ids) THEN i + P ELSE Len(ids)
       IN  MinePagesOfSize(MinePage(s, SubSeq(ids, i + 1, upto)), ids, i + P, P)

\* create_symptom_relationships with batch_size = P over the store s.
CreateSymptomRelationshipsPaged(s, P) == MinePagesOfSize(s, PhenotypeIds(s), 0, P)

\* create_symptom_relationships: the pages from offset i on, in order.
RECURSIVE MinePagesFrom(_, _, _)
MinePagesFrom(s, ids, i) ==
  IF i >= Len(ids) THEN s
  ELSE LET upto == IF i + MinePageSize < Len(ids) THEN i + MinePageSize ELSE Len(ids)
       IN  MinePagesFrom(MinePage(s, SubSeq(ids, i + 1, upto)), ids, i + MinePageSize)

CreateSymptomRelationships(s) == MinePagesFrom(s, PhenotypeIds(s), 0)

\* ------------------------------------------------------- clusters, analytics
\* First statement of create_symptom_clusters: group by category.
AssignClusters(s) ==
  [s EXCEPT !.phen =
     [p \in DOMAIN s.phen |->
        [s.phen[p] EXCEPT
           !.cluster_id = s.phen[p].category,
           !.cluster_size =
              Some(Cardinality({q \in DOMAIN s.phen : s.phen[q].category = s.phen[p].category}))]]]

\* A second statement without its WHERE: every edge is marked.
CrossClusterStrengthAny(s) ==
  [s EXCEPT !.assoc =
     [e \in DOMAIN s.assoc |->
        [s.assoc[e] EXCEPT
           !.cross_cluster = Some(TRUE),
           !.cluster_connection_strength =
              Some(<<s.assoc[e].co_occurrence_count[1],
                     s.phen[e[1]].cluster_size[1] + s.phen[e[2]].cluster_size[1]>>)]]]

\* Second statement: WHERE p1.cluster_id <> p2.cluster_id SET r.cross_cluster,
\* r.cluster_connection_strength.
CrossClusterStrength(s) ==
  [s EXCEPT !.assoc =
     [e \in DOMAIN s.assoc |->
        IF s.phen[e[1]].cluster_id # None /\ s.phen[e[2]].cluster_id # None
           /\ s.phen[e[1]].cluster_id # s.phen[e[2]].cluster_id
        THEN [s.assoc[e] EXCEPT
                !.cross_cluster = Some(TRUE),
                !.cluster_connection_strength =
                   Some(<<s.assoc[e].co_occurrence_count[1],
                          s.phen[e[1]].cluster_size[1] + s.phen[e[2]].cluster_size[1]>>)]
        ELSE s.assoc[e]]]

CreateSymptomClusters(s) == CrossClusterStrength(AssignClusters(s))

\* The ASSOCIATED_WITH relationships with p at one end: the rows of
\* (p)-[r:ASSOCIATED_WITH]-().
IncidentAssoc(s, p) == {e \in DOMAIN s.assoc : e[1] = p \/ e[2] = p}

\* The nodes at the other end of those rows.
Neighbors(s, p) == {IF e[1] = p THEN e[2] ELSE e[1] : e \in IncidentAssoc(s, p)}

\* Number of relationships between x and y, in either direction.
Multiplicity(s, x, y) ==
  (IF <<x, y>> \in DOMAIN s.assoc THEN 1 ELSE 0) + (IF <<y, x>> \in DOMAIN s.assoc THEN 1 ELSE 0)

\* A walk (a node sequence) is a path of the pattern when no relationship is
\* used twice: each pair of nodes is crossed at most as often as it has edges.
IsTrail(s, w) ==
  \A i \in 1..(Len(w) - 1) :
    /\ w[i] # w[i + 1]
    /\ Cardinality({j \in 1..(Len(w) - 1) : {w[j], w[j + 1]} = {w[i], w[i + 1]}})
         <= Multiplicity(s, w[i], w[i + 1])

\* OPTIONAL MATCH (p)-[:ASSOCIATED_WITH*..3]-(other): COUNT(DISTINCT other)
Reach(s, p) ==
  LET N == DOMAIN s.phen
  IN  {a \in N : IsTrail(s, <<p, a>>)}
      \cup {b \in N : \E a \in N : IsTrail(s, <<p, a, b>>)}
      \cup {c \in N : \E a \in N, b \in N : IsTrail(s, <<p, a, b, c>>)}

\* Degree centrality.  graph.py counts the pattern expression itself, one
\* non-null list per phenotype; graph_enhancer.py counts the matched edges and
\* gives no row, so no SET, to a phenotype without one.
DegreeCentrality(im, s, p) ==
  IF im = "graph" THEN Some(1)
  ELSE IF EdgesInto(s, p) = {} THEN s.phen[p].degree_centrality
  ELSE Some(Cardinality(EdgesInto(s, p)))

\* MATCH (p)-[r:ASSOCIATED_WITH]-() WITH p, COUNT(r) as connections SET p.is_hub:
\* a phenotype without such an edge gives no row.
IsHub(s, p) ==
  IF IncidentAssoc(s, p) = {} THEN s.phen[p].is_hub
  ELSE Some(Cardinality(IncidentAssoc(s, p)) > HubThreshold)

\* Rows of MATCH (n1)-[:ASSOCIATED_WITH]-(n2) WHERE n1 IN neighbors AND n2 IN
\* neighbors AND n1 <> n2: each relationship among the neighbours, once in each
\* orientation.
Triangles(s, p) ==
  2 * Cardinality({e \in DOMAIN s.assoc :
                     e[1] \in Neighbors(s, p) /\ e[2] \in Neighbors(s, p) /\ e[1] # e[2]})

\* COUNT(neighbor) as degree: one row for each incident relationship.
Degree(s, p) == Cardinality(IncidentAssoc(s, p))

\* SET p.cluster_coefficient, the fraction as <<numerator, denominator>>; with
\* no row left after the second MATCH nothing is set.
ClusterCoefficient(s, p) ==
  IF IncidentAssoc(s, p) = {} \/ Triangles(s, p) = 0 THEN s.phen[p].cluster_coefficient
  ELSE IF Degree(s, p) <= 1 THEN Some(<<0, 1>>)
  ELSE Some(<<2 * Triangles(s, p), Degree(s, p) * (Degree(s, p) - 1)>>)

\* apply_graph_algorithms: the four statements in order (each reads only edges
\* and properties that the other three do not write).
ApplyGraphAlgorithms(im, s) ==
  [s EXCEPT !.phen =
     [p \in DOMAIN s.phen |->
        [s.phen[p] EXCEPT
           !.degree_centrality = DegreeCentrality(im, s, p),
           !.betweenness_score = Some(Cardinality(Reach(s, p))),
           !.is_hub = IsHub(s, p),
           !.cluster_coefficient = ClusterCoefficient(s, p)]]]

\* ------------------------------------------------------- composite metrics
\* The paths of (p)-[ia:IS_A*]->(): the sequences of distinct IS_A
\* relationships that start at p, each one continuing the one before it.
IsAPathsFrom(s, p) ==
  {w \in UNION {[1..n -> s.isa] : n \in 1..Cardinality(s.isa)} :
     /\ w[1][1] = p
     /\ \A i \in (DOMAIN w) \ {1} : w[i - 1][2] = w[i][1]
     /\ \A i \in DOMAIN w, j \in DOMAIN w : w[i] = w[j] => i = j}

\* COUNT(DISTINCT ia) as hierarchical_level: ia is the list of relationships
\* of a path, so the distinct paths are counted (0 after the OPTIONAL MATCH
\* found none).
HierarchicalLevel(s, p) == Cardinality(IsAPathsFrom(s, p))

\* The statement of add_phenotype_metrics in graph_enhancer.py, run for every
\* phenotype: MATCH (p)<-[hp:HAS_PHENOTYPE]-() and MATCH (p)-[aw:ASSOCIATED_WITH]-()
\* leave no row, and so no SET, for a phenotype without such an edge.
PhenotypeMetrics(s) ==
  [s EXCEPT !.phen =
     [p \in DOMAIN s.phen |->
        IF EdgesInto(s, p) = {} \/ IncidentAssoc(s, p) = {} THEN s.phen[p]
        ELSE [s.phen[p] EXCEPT
                !.prevalence = Some(Cardinality(EdgesInto(s, p))),
                !.connectivity = Some(Cardinality(IncidentAssoc(s, p))),
                !.specificity = Some(<<1, Cardinality(EdgesInto(s, p))>>),
                !.hierarchical_level = Some(HierarchicalLevel(s, p)),
                !.leaf_node = Some(~\E e \in s.isa : e[2] = p)]]]

\* ------------------------------------------------------ the in-memory index
\* HPOParser.__init__: terms by id, the nodes and edges (term, parent) of the
\* DiGraph, and the two maps, each a dict of lists.
EmptyIndex ==
  [terms |-> <<>>, nodes |-> {}, edges |-> {}, disease_symptoms |-> <<>>,
   symptom_diseases |-> <<>>]

KeyDefinition == <<"d", "e", "f", "i", "n", "i", "t", "i", "o", "n">>

\* s.split(sep)[0] for a separator of two characters: s up to the first sep.
BeforeSep(s, sep) ==
  LET at == {i \in 1..(Len(s) - 1) : s[i] = sep[1] /\ s[i + 1] = sep[2]}
  IN  IF at = {} THEN s
      ELSE SubSeq(s, 1, (CHOOSE i \in at : \A j \in at : i <= j) - 1)

\* self.terms[current_term['id']] = current_term, under "if current_term:"
\* (None and {} are both false).  A term without an id is a KeyError.
ConnStore(st) ==
  IF st.current_term = None \/ st.current_term[1] = <<>> THEN st
  ELSE IF ~DictHas(st.current_term[1], KeyId) THEN [st EXCEPT !.error = TRUE]
  ELSE [st EXCEPT !.index.terms =
          DictSet(@, DictGet(st.current_term[1], KeyId, Str(<<>>)).v, st.current_term[1])]

\* current_term[key] = val: a TypeError while current_term is None.
ConnAssign(st, key, val) ==
  IF st.current_term = None THEN [st EXCEPT !.error = TRUE]
  ELSE [st EXCEPT !.current_term = Some(DictSet(@[1], key, val))]

\* One iteration of the loop of parse_obo; st holds the index, current_term
\* (None before the first [Term]) and whether a line has raised.
ConnLine(st, raw) ==
  LET line == Strip(raw)
  IN  IF line = TermMarker
      THEN LET st1 == ConnStore(st)
           IN  IF st1.error THEN st1 ELSE [st1 EXCEPT !.current_term = Some(<<>>)]
      ELSE IF StartsWith(line, <<"i", "d", ":", " ">>)
      THEN ConnAssign(st, KeyId, Str(SubSeq(line, 5, Len(line))))
      ELSE IF StartsWith(line, <<"n", "a", "m", "e", ":", " ">>)
      THEN ConnAssign(st, KeyName, Str(SubSeq(line, 7, Len(line))))
      ELSE IF StartsWith(line, <<"d", "e", "f", ":", " ">>)
      THEN LET quoted == Split(SubSeq(line, 6, Len(line)), "\"")
           IN  IF Len(quoted) < 2 THEN [st EXCEPT !.error = TRUE]
               ELSE ConnAssign(st, KeyDefinition, Str(quoted[2]))
      ELSE IF StartsWith(line, <<"i", "s", "_", "a", ":", " ">>)
      THEN IF st.current_term = None THEN [st EXCEPT !.error = TRUE]
           ELSE LET old == DictGet(st.current_term[1], KeyIsA, List(<<>>)).v
                IN  ConnAssign(st, KeyIsA,
                               List(Append(old, BeforeSep(SubSeq(line, 7, Len(line)), <<" ", "!">>))))
      ELSE st

RECURSIVE ConnLines(_, _)
ConnLines(st, lines) ==
  IF lines = <<>> \/ st.error THEN st
  ELSE IF Len(lines) = 1 THEN ConnLine(st, lines[1])
  ELSE LET h == Len(lines) \div 2
       IN  ConnLines(ConnLines(st, SubSeq(lines, 1, h)), SubSeq(lines, h + 1, Len(lines)))

\* "Build the graph structure": a node per term, an edge (term, parent) per
\* is_a entry; add_edge adds the parent as a node when it is not one yet.
BuildGraph(idx) ==
  LET T == idx.terms
      parents(i) == DictGet(T[i].v, KeyIsA, List(<<>>)).v
      edges == UNION {{<<T[i].k, parents(i)[j]>> : j \in 1..Len(parents(i))} : i \in 1..Len(T)}
  IN  [idx EXCEPT !.edges = @ \cup edges,
                  !.nodes = @ \cup {T[i].k : i \in 1..Len(T)} \cup {e[2] : e \in edges}]

\* parse_obo: current_term = None, the loop, the last term, the graph.  An
\* exception leaves the terms stored so far and no graph.
ParseObo(idx, lines) ==
  LET st == ConnLines([index |-> idx, current_term |-> None, error |-> FALSE], lines)
      st1 == IF st.error THEN st ELSE ConnStore(st)
  IN  IF st1.error THEN [index |-> st1.index, error |-> TRUE]
      ELSE [index |-> BuildGraph(st1.index), error |-> FALSE]

\* One iteration of the loop of parse_phenotype_annotations; the maps are
\* defaultdict(list), so d[k].append(x) starts from [] for a new key.
ConnRow(idx, raw) ==
  LET parts == Split(Strip(raw), "\t")
      AppendTo(d, k, x) == DictSet(d, k, Append(DictGet(d, k, <<>>), x))
  IN  IF StartsWith(raw, <<"#">>) THEN idx
      ELSE IF Len(parts) >= 4
      THEN [idx EXCEPT !.disease_symptoms = AppendTo(@, parts[1], parts[4]),
                       !.symptom_diseases = AppendTo(@, parts[4], parts[1])]
      ELSE idx

RECURSIVE ConnRows(_, _)
ConnRows(idx, lines) ==
  IF lines = <<>> THEN idx
  ELSE IF Len(lines) = 1 THEN ConnRow(idx, lines[1])
  ELSE LET h == Len(lines) \div 2
       IN  ConnRows(ConnRows(idx, SubSeq(lines, 1, h)), SubSeq(lines, h + 1, Len(lines)))

\* parse_phenotype_annotations: next(file) skips the header (StopIteration on
\* a file without lines), then the loop.
ParsePhenotypeAnnotations(idx, lines) ==
  IF lines = <<>> THEN [index |-> idx, error |-> TRUE]
  ELSE [index |-> ConnRows(idx, Tail(lines)), error |-> FALSE]

\* The nodes of S and the nodes reached from them along the edges.
RECURSIVE ReachableFrom(_, _)
ReachableFrom(edges, S) ==
  LET T == S \cup {e[2] : e \in {x \in edges : x[1] \in S}}
  IN  IF T = S THEN S ELSE ReachableFrom(edges, T)

\* nx.descendants(G, n): the nodes reachable from n by one or more edges, n
\* excluded.
NxDescendants(edges, n) ==
  ReachableFrom(edges, {e[2] : e \in {x \in edges : x[1] = n}}) \ {n}

\* nx.ancestors(G, n): the nodes with a path to n, n excluded; the
\* descendants of n in the reversed graph.
NxAncestors(edges, n) == NxDescendants({<<e[2], e[1]>> : e \in edges}, n)

\* The outcome of a query: ok is FALSE where the call raises.
\* self.terms.get(term_id, {})
GetTermInfo(idx, term_id) == [ok |-> TRUE, v |-> DictGet(idx.terms, term_id, <<>>)]

\* get_ancestors without its handler of NetworkXError.
GetAncestorsUnguarded(idx, term_id) ==
  IF term_id \in idx.nodes THEN [ok |-> TRUE, v |-> NxAncestors(idx.edges, term_id)]
  ELSE [ok |-> FALSE, v |-> {}]

\* list(nx.ancestors(self.graph, term_id)); NetworkXError (the node is not in
\* the graph) gives [].  The list of a set: its order is not fixed, so the
\* outcome is the set.
GetAncestors(idx, term_id) ==
  IF term_id \in idx.nodes THEN [ok |-> TRUE, v |-> NxAncestors(idx.edges, term_id)]
  ELSE [ok |-> TRUE, v |-> {}]

GetDescendants(idx, term_id) ==
  IF term_id \in idx.nodes THEN [ok |-> TRUE, v |-> NxDescendants(idx.edges, term_id)]
  ELSE [ok |-> TRUE, v |-> {}]

\* self.symptom_diseases.get(symptom_id, [])
GetDiseasesForSymptom(idx, symptom_id) ==
  [ok |-> TRUE, v |-> DictGet(idx.symptom_diseases, symptom_id, <<>>)]

\* self.disease_symptoms.get(disease_id, [])
GetSymptomsForDisease(idx, disease_id) ==
  [ok |-> TRUE, v |-> DictGet(idx.disease_symptoms, disease_id, <<>>)]

\* The inner loop of get_related_symptoms over the symptoms of one disease:
\* related[symptom] += 1 on a defaultdict(int).
RECURSIVE CountSymptoms(_, _, _)
CountSymptoms(related, symptoms, symptom_id) ==
  IF symptoms = <<>> THEN related
  ELSE CountSymptoms(IF symptoms[1] # symptom_id
                     THEN DictSet(related, symptoms[1], DictGet(related, symptoms[1], 0) + 1)
                     ELSE related,
                     Tail(symptoms), symptom_id)

\* The outer loop over the diseases of the symptom.
RECURSIVE CountDiseases(_, _, _, _)
CountDiseases(idx, related, diseases, symptom_id) ==
  IF diseases = <<>> THEN related
  ELSE CountDiseases(idx,
                     CountSymptoms(related, GetSymptomsForDisease(idx, diseases[1]).v,
                                   symptom_id),
                     Tail(diseases), symptom_id)

GetRelatedSymptoms(idx, symptom_id) ==
  [ok |-> TRUE,
   v |-> CountDiseases(idx, <<>>, GetDiseasesForSymptom(idx, symptom_id).v, symptom_id)]

\* ---------------------------------------------------------------- the state
VARIABLES
  impl,        \* which build runs: "graph" or "modular"
  batch_size,  \* self.batch_size
  pc,          \* the pass main() is in
  obo,         \* the lines of the ontology file read so far
  hpoa,        \* the annotation file: the rows read so far after the header
               \* (pipeline), or the lines of the file parsed (parsers)
  loc,         \* the locals of the running ingestion function
  sink,        \* the graph store
  sent,        \* the batches handed to _process_batch / _process_annotation_batch
  raised,      \* a session.run of the sink has raised
  run,         \* 1, or 2 once ingestion (or the engine) has been run again
  first,       \* Some(the sink after the first run) once it was run again
  stats,       \* the counts a finished ingestion function reports
  mine_i,      \* i of the page loop of create_symptom_relationships
  cls_in,      \* classifier specification: Some(the value passed as hpo_id)
  cls_out,     \* classifier specification: Some(the outcome) once classified
  index,       \* the in-memory index: the fields of an HPOParser
  query,       \* index specification: Some(the query called) once one was
  result       \* index specification: Some(its outcome)

vars ==
  <<impl, batch_size, pc, obo, hpoa, loc, sink, sent, raised, run, first, stats,
    mine_i, cls_in, cls_out, index, query, result>>

\* self.batch_size = 1000
DefaultBatchSize == 1000

\* ------------------------------------------------------------ input files
DiseaseNums == {1}

TermLine == TermMarker \o <<"\n">>
IdLine(n) == <<"i", "d", ":", " ">> \o HpoId(n) \o <<"\n">>
IsALine(n) == <<"i", "s", "_", "a", ":", " ">> \o HpoId(n) \o <<" ", "!", " ", "A", "l", "l", "\n">>

DiseaseId(d) == <<"O", "M", "I", "M", ":">> \o PadDigits(d, 1)
AnnotationLine(d, n) ==
  DiseaseId(d) \o <<"\t", "n", "\t", "\t">> \o HpoId(n) \o <<"\n">>

IsIsALine(line) == StartsWith(line, <<"i", "s", "_", "a", ":">>)

\* The lines that may follow the lines read so far.  A file is a sequence of
\* [Term] blocks; the k-th block carries the id HP:000000k, or none, and its id
\* line is followed by is_a lines naming any of the ids.
NextOboLines(read) ==
  LET nTerms == Cardinality({i \in 1..Len(read) : read[i] = TermLine})
      nIsA == Cardinality({i \in 1..Len(read) : IsIsALine(read[i])})
      last == IF read = <<>> THEN <<>> ELSE read[Len(read)]
  IN  (IF nTerms < MaxTerms THEN {TermLine} ELSE {})
      \cup (IF last = TermLine THEN {IdLine(nTerms)} ELSE {})
      \cup (IF read # <<>> /\ last # TermLine /\ nIsA < MaxIsA
            THEN {IsALine(n) : n \in 1..MaxTerms} ELSE {})

\* The rows that may follow the rows read so far.
NextHpoaLines(read) ==
  IF Len(read) < MaxRows
  THEN {AnnotationLine(d, n) : d \in DiseaseNums, n \in 1..2}
  ELSE {}

\* ----------------------------------------------------------- the pipeline
OboLocals(st) ==
  [current_term |-> st.current_term, batch |-> st.batch,
   terms_processed |-> st.terms_processed,
   relationships_created |-> st.relationships_created]

HpoaLocals(st) ==
  [batch |-> st.batch, diseases_processed |-> st.diseases_processed,
   relationships_created |-> st.relationships_created]

OboState ==
  [current_term |-> loc.current_term, batch |-> loc.batch,
   terms_processed |-> loc.terms_processed,
   relationships_created |-> loc.relationships_created,
   sink |-> sink, sent |-> sent, sinkRaised |-> FALSE, error |-> FALSE]

HpoaState ==
  [batch |-> loc.batch, diseases_processed |-> loc.diseases_processed,
   relationships_created |-> loc.relationships_created,
   sink |-> sink, sent |-> sent, sinkRaised |-> FALSE, error |-> FALSE]

NoStats == [Phenotype |-> None, IS_A |-> None, Disease |-> None, HAS_PHENOTYPE |-> None]

\* main(): clear_database(), then process_obo_file on an empty store.
Init ==
  /\ impl \in Impls
  /\ batch_size \in 1..MaxBatchSize
  /\ pc = "obo"
  /\ obo = <<>>
  /\ hpoa = <<>>
  /\ loc = OboLocals(OboStart(EmptySink, <<>>))
  /\ sink = EmptySink
  /\ sent = <<>>
  /\ raised = FALSE
  /\ run = 1
  /\ first = None
  /\ stats = NoStats
  /\ mine_i = 0
  /\ cls_in = None
  /\ cls_out = None
  /\ index = EmptyIndex
  /\ query = None
  /\ result = None

\* process_obo_file reads one line.
ReadOboLine ==
  /\ pc = "obo"
  /\ \E line \in NextOboLines(obo), raiseAt \in 0..2 :
       \E st \in {OboLine(impl, batch_size, OboState, line, raiseAt)} :
           /\ raiseAt > 0 => st.sinkRaised
           /\ obo' = Append(obo, line)
           /\ loc' = OboLocals(st)
           /\ sink' = st.sink
           /\ sent' = st.sent
           /\ raised' = (raised \/ st.sinkRaised)
           /\ pc' = IF st.error THEN "failed" ELSE "obo"
  /\ UNCHANGED <<index, query, result>>
  /\ UNCHANGED <<impl, batch_size, hpoa, run, first, stats, mine_i, cls_in, cls_out>>

\* process_obo_file reaches the end of the file, flushes and returns;
\* process_phenotype_annotations starts and skips the header.
EndOboFile ==
  /\ pc = "obo"
  /\ \E raiseAt \in 0..2 :
       \E st \in {OboEnd(OboState, raiseAt)} :
           /\ raiseAt > 0 => st.sinkRaised
           /\ sink' = st.sink
           /\ sent' = st.sent
           /\ raised' = (raised \/ st.sinkRaised)
           /\ IF st.error
              THEN /\ pc' = "failed"
                   /\ loc' = OboLocals(st)
                   /\ stats' = stats
              ELSE /\ pc' = "hpoa"
                   /\ loc' = HpoaLocals(HpoaStart(st.sink, st.sent))
                   /\ stats' = [stats EXCEPT !.Phenotype = Some(st.terms_processed),
                                             !.IS_A = Some(st.relationships_created)]
  /\ UNCHANGED <<index, query, result>>
  /\ UNCHANGED <<impl, batch_size, obo, hpoa, run, first, mine_i, cls_in, cls_out>>

\* process_phenotype_annotations reads one row.
ReadHpoaLine ==
  /\ pc = "hpoa"
  /\ \E line \in NextHpoaLines(hpoa), raiseAt \in 0..1 :
       \E st \in {HpoaLine(batch_size, HpoaState, line, raiseAt)} :
           /\ raiseAt > 0 => st.sinkRaised
           /\ hpoa' = Append(hpoa, line)
           /\ loc' = HpoaLocals(st)
           /\ sink' = st.sink
           /\ sent' = st.sent
           /\ raised' = (raised \/ st.sinkRaised)
           /\ pc' = IF st.error THEN "failed" ELSE "hpoa"
  /\ UNCHANGED <<index, query, result>>
  /\ UNCHANGED <<impl, batch_size, obo, run, first, stats, mine_i, cls_in, cls_out>>

\* process_phenotype_annotations reaches the end of the file, flushes and
\* returns; main() goes on to create_symptom_relationships.
EndHpoaFile ==
  /\ pc = "hpoa"
  /\ \E raiseAt \in 0..1 :
       \E st \in {HpoaEnd(HpoaState, raiseAt)} :
           /\ raiseAt > 0 => st.sinkRaised
           /\ sink' = st.sink
           /\ sent' = st.sent
           /\ raised' = (raised \/ st.sinkRaised)
           /\ loc' = HpoaLocals(st)
           /\ IF st.error
              THEN /\ pc' = "failed"
                   /\ stats' = stats
              ELSE /\ pc' = "mine"
                   /\ stats' = [stats EXCEPT !.Disease = Some(st.diseases_processed),
                                             !.HAS_PHENOTYPE = Some(st.relationships_created)]
  /\ UNCHANGED <<index, query, result>>
  /\ UNCHANGED <<impl, batch_size, obo, hpoa, run, first, mine_i, cls_in, cls_out>>

\* process_obo_file and process_phenotype_annotations are called once more on
\* the same two files, the store not cleared in between.
IngestAgain ==
  /\ pc = "mine"
  /\ run = 1
  /\ mine_i = 0
  /\ \E t \in {ProcessOboFile(impl, batch_size, sink, obo)} :
     \E a \in {ProcessPhenotypeAnnotations(batch_size, t.sink, hpoa)} :
         /\ ~t.error /\ ~a.error
         /\ sink' = a.sink
         /\ sent' = sent \o t.sent \o a.sent
  /\ run' = 2
  /\ first' = Some(sink)
  /\ UNCHANGED <<index, query, result>>
  /\ UNCHANGED <<impl, batch_size, pc, obo, hpoa, loc, raised, stats, mine_i, cls_in, cls_out>>

\* create_symptom_relationships: one page of the loop; after the last page
\* main() goes on to create_symptom_clusters.
MineNextPage ==
  /\ pc = "mine"
  /\ LET ids == PhenotypeIds(sink)
         total == Len(ids)
         upto == IF mine_i + MinePageSize < total THEN mine_i + MinePageSize ELSE total
     IN  IF mine_i < total
         THEN /\ sink' = MinePage(sink, SubSeq(ids, mine_i + 1, upto))
              /\ mine_i' = mine_i + MinePageSize
              /\ pc' = IF mine_i + MinePageSize < total THEN "mine" ELSE "cluster"
         ELSE /\ sink' = sink
              /\ mine_i' = mine_i
              /\ pc' = "cluster"
  /\ UNCHANGED <<index, query, result>>
  /\ UNCHANGED <<impl, batch_size, obo, hpoa, loc, sent, raised, run, first, stats,
                 cls_in, cls_out>>

\* create_symptom_clusters; main() goes on to apply_graph_algorithms.
ClusterSymptoms ==
  /\ pc = "cluster"
  /\ sink' = CreateSymptomClusters(sink)
  /\ pc' = "algo"
  /\ UNCHANGED <<index, query, result>>
  /\ UNCHANGED <<impl, batch_size, obo, hpoa, loc, sent, raised, run, first, stats,
                 mine_i, cls_in, cls_out>>

\* apply_graph_algorithms; main() goes on to add_phenotype_metrics.
ApplyAlgorithms ==
  /\ pc = "algo"
  /\ sink' = ApplyGraphAlgorithms(impl, sink)
  /\ pc' = "metrics"
  /\ UNCHANGED <<index, query, result>>
  /\ UNCHANGED <<impl, batch_size, obo, hpoa, loc, sent, raised, run, first, stats,
                 mine_i, cls_in, cls_out>>

\* add_phenotype_metrics is called.  knowledge_graph_builder.py calls it on the
\* GraphEnhancer, but graph_enhancer.py defines it at module level, not in the
\* class: the call raises AttributeError before any statement is sent.  The
\* statement of graph.py holds the pattern (:<-[:IS_A]-()), which is not
\* Cypher: session.run raises.  Either way the handler of main() re-raises.
AddPhenotypeMetrics ==
  /\ pc = "metrics"
  /\ pc' = "failed"
  /\ raised' = (impl = "graph")
  /\ UNCHANGED <<index, query, result>>
  /\ UNCHANGED <<impl, batch_size, obo, hpoa, loc, sink, sent, run, first, stats,
                 mine_i, cls_in, cls_out>>

\* create_symptom_relationships, create_symptom_clusters and
\* apply_graph_algorithms are called once more, the store untouched in between.
EnhanceAgain ==
  /\ pc = "metrics"
  /\ run = 1
  /\ sink' = ApplyGraphAlgorithms(impl,
                CreateSymptomClusters(CreateSymptomRelationships(sink)))
  /\ run' = 2
  /\ first' = Some(sink)
  /\ UNCHANGED <<index, query, result>>
  /\ UNCHANGED <<impl, batch_size, pc, obo, hpoa, loc, sent, raised, stats,
                 mine_i, cls_in, cls_out>>

Next ==
  \/ ReadOboLine
  \/ EndOboFile
  \/ ReadHpoaLine
  \/ EndHpoaFile
  \/ IngestAgain
  \/ MineNextPage
  \/ ClusterSymptoms
  \/ ApplyAlgorithms
  \/ AddPhenotypeMetrics

Spec == Init /\ [][Next]_vars

\* ------------------------------------------- the enhancement passes alone
\* An ontology file of NumPhens blocks HP:0000001.. with a [Term] line after
\* the last one.
MineOboFile ==
  [i \in 1..(2 * NumPhens + 1) |-> IF i % 2 = 1 THEN TermLine ELSE IdLine(i \div 2)]

\* Annotation rows: diseases from+1 .. from+n, each with phenotypes lo .. hi.
GroupRows(from, n, lo, hi) ==
  LET w == IF hi >= lo THEN hi - lo + 1 ELSE 0
  IN  [i \in 1..(n * w) |-> AnnotationLine(from + ((i - 1) \div w) + 1, lo + ((i - 1) % w))]

\* n1 diseases with the phenotypes 1..k1, then n2 diseases with 2 and 3.
MineHpoaFile(n1, n2, k1) == GroupRows(0, n1, 1, k1) \o GroupRows(n1, n2, 2, 3)

\* main() has ingested both files with the default batch size and is about to
\* call create_symptom_relationships.
InitMine ==
  /\ impl \in Impls
  /\ batch_size = DefaultBatchSize
  /\ pc = "mine"
  /\ obo = MineOboFile
  /\ \E n1 \in 0..MaxDiseases, n2 \in 0..MaxDiseases, k1 \in 1..NumPhens :
       /\ n1 + n2 <= MaxDiseases
       /\ hpoa = MineHpoaFile(n1, n2, k1)
  /\ \E t \in {ProcessOboFile(impl, batch_size, EmptySink, obo)} :
     \E a \in {ProcessPhenotypeAnnotations(batch_size, t.sink, hpoa)} :
         /\ loc = HpoaLocals(a)
         /\ sink = a.sink
         /\ sent = t.sent \o a.sent
         /\ stats = [Phenotype |-> Some(t.terms_processed),
                     IS_A |-> Some(t.relationships_created),
                     Disease |-> Some(a.diseases_processed),
                     HAS_PHENOTYPE |-> Some(a.relationships_created)]
  /\ raised = FALSE
  /\ run = 1
  /\ first = None
  /\ mine_i = 0
  /\ cls_in = None
  /\ cls_out = None
  /\ index = EmptyIndex
  /\ query = None
  /\ result = None

NextMine ==
  \/ MineNextPage
  \/ ClusterSymptoms
  \/ ApplyAlgorithms
  \/ EnhanceAgain
  \/ AddPhenotypeMetrics

SpecMine == InitMine /\ [][NextMine]_vars

\* ------------------------------------------- the metrics specification
\* The passes of the engine on a small store with IS_A edges, ending with
\* add_phenotype_metrics called on the enhancer (modular build) or on the
\* builder (graph.py).
\* Number of terms of the ontology file.
NumMetricsTerms == 4
\* Largest number of diseases of the annotation file.
MaxMetricsDiseases == 5

\* The is_a lines of the terms 1..4: no edge, a chain 1 -> 2 -> 3, a fork
\* 1 -> {2, 3}, a diamond 1 -> {2, 3} -> 4.  A term with one parent carries its
\* is_a line twice, which makes the value a list of parents.
MetricsShapes ==
  {<<<<>>, <<>>, <<>>, <<>>>>,
   <<<<2, 2>>, <<3, 3>>, <<>>, <<>>>>,
   <<<<2, 3>>, <<>>, <<>>, <<>>>>,
   <<<<2, 3>>, <<4, 4>>, <<4, 4>>, <<>>>>}

RECURSIVE MetricsBlocks(_, _)
MetricsBlocks(shape, k) ==
  IF k > NumMetricsTerms THEN <<TermLine>>
  ELSE <<TermLine, IdLine(k)>>
       \o (IF k <= Len(shape) THEN [i \in 1..Len(shape[k]) |-> IsALine(shape[k][i])] ELSE <<>>)
       \o MetricsBlocks(shape, k + 1)

InitMetrics ==
  /\ impl \in Impls
  /\ batch_size = DefaultBatchSize
  /\ pc = "mine"
  /\ \E shape \in MetricsShapes : obo = MetricsBlocks(shape, 1)
  /\ \E n \in 0..MaxMetricsDiseases, k \in 1..NumMetricsTerms : hpoa = GroupRows(0, n, 1, k)
  /\ \E t \in {ProcessOboFile(impl, batch_size, EmptySink, obo)} :
     \E a \in {ProcessPhenotypeAnnotations(batch_size, t.sink, hpoa)} :
         /\ loc = HpoaLocals(a)
         /\ sink = a.sink
         /\ sent = t.sent \o a.sent
         /\ stats = [Phenotype |-> Some(t.terms_processed),
                     IS_A |-> Some(t.relationships_created),
                     Disease |-> Some(a.diseases_processed),
                     HAS_PHENOTYPE |-> Some(a.relationships_created)]
  /\ raised = FALSE
  /\ run = 1
  /\ first = None
  /\ mine_i = 0
  /\ cls_in = None
  /\ cls_out = None
  /\ index = EmptyIndex
  /\ query = None
  /\ result = None

\* add_phenotype_metrics runs.  graph_enhancer.py: the function called with the
\* enhancer sends its statement.  graph.py: the statement holds the pattern
\* (:<-[:IS_A]-()), session.run raises and the handler re-raises.
PhenotypeMetricsPass ==
  /\ pc = "metrics"
  /\ IF impl = "modular"
     THEN /\ sink' = PhenotypeMetrics(sink)
          /\ pc' = "done"
          /\ raised' = raised
     ELSE /\ sink' = sink
          /\ pc' = "failed"
          /\ raised' = TRUE
  /\ UNCHANGED <<index, query, result>>
  /\ UNCHANGED <<impl, batch_size, obo, hpoa, loc, sent, run, first, stats,
                 mine_i, cls_in, cls_out>>

NextMetrics == MineNextPage \/ ClusterSymptoms \/ ApplyAlgorithms \/ PhenotypeMetricsPass

SpecMetrics == InitMetrics /\ [][NextMetrics]_vars

\* ------------------------------------------ the coefficient specification
\* Number of phenotype terms in the store of the coefficient specification.
NumCoefTerms == 3

\* An ontology file of the terms 1..NumCoefTerms without is_a lines.
RECURSIVE CoefBlocks(_)
CoefBlocks(k) ==
  IF k > NumCoefTerms THEN <<TermLine>>
  ELSE <<TermLine, IdLine(k)>> \o CoefBlocks(k + 1)

\* The ordered pairs of different terms of the store s.
DirectedPairs(s) == {e \in (DOMAIN s.phen) \X (DOMAIN s.phen) : e[1] # e[2]}

\* GraphEnhancer(driver) over a store that holds the ingested terms and, between
\* any two of them, no ASSOCIATED_WITH edge, an edge in one direction or an edge
\* in each direction; apply_graph_algorithms is about to run.
InitCoefficient ==
  /\ impl \in Impls
  /\ batch_size = DefaultBatchSize
  /\ pc = "algo"
  /\ obo = CoefBlocks(1)
  /\ hpoa = <<>>
  /\ \E t \in {ProcessOboFile(impl, batch_size, EmptySink, obo)} :
     \E E \in SUBSET DirectedPairs(t.sink) :
         /\ loc = HpoaLocals(HpoaStart(t.sink, t.sent))
         /\ sink = [t.sink EXCEPT !.assoc =
                      [e \in E |-> [co_occurrence_count |-> Some(MinCoOccurrence),
                                    correlation_strength |-> Some(<<MinCoOccurrence, MinCoOccurrence>>),
                                    cross_cluster |-> None,
                                    cluster_connection_strength |-> None]]]
         /\ sent = t.sent
         /\ stats = [Phenotype |-> Some(t.terms_processed),
                     IS_A |-> Some(t.relationships_created),
                     Disease |-> Some(0),
                     HAS_PHENOTYPE |-> Some(0)]
  /\ raised = FALSE
  /\ run = 1
  /\ first = None
  /\ mine_i = 0
  /\ cls_in = None
  /\ cls_out = None
  /\ index = EmptyIndex
  /\ query = None
  /\ result = None

NextCoefficient == ApplyAlgorithms

SpecCoefficient == InitCoefficient /\ [][NextCoefficient]_vars

\* ------------------------------------------------------ the classifier alone
\* The rule table of a build, the bounds of a rule as identifiers.
RulesOf(im) ==
  IF im = "graph"
  THEN [i \in 1..Len(GraphCategories) |->
          <<HpoId(GraphCategories[i][1]), HpoId(GraphCategories[i][2]), GraphCategories[i][3]>>]
  ELSE PhenotypeCategories

\* The numbers at, one below and one above a bound of a rule of either table.
BoundaryNums ==
  LET bounds == {GraphCategories[i][j] : i \in 1..Len(GraphCategories), j \in 1..2}
                \cup {PhenotypeRanges[i][j] : i \in 1..Len(PhenotypeRanges), j \in 1..2}
  IN  {n \in {b + d : b \in bounds, d \in {0 - 1, 0, 1}} : n >= 0}

\* The identifier 'PREFIX:NNNNNNN'.
PrefixedId(prefix, n) == prefix \o <<":">> \o PadDigits(n, 7)

\* The prefixes of the well-formed identifiers: the one of the rule bounds of
\* phenotype.py and another one.
IdPrefixes == {<<"H", "P">>, <<"M", "P">>}

\* The well-formed identifiers around the bounds.
WellFormedIds == {PrefixedId(p, n) : p \in IdPrefixes, n \in BoundaryNums}

\* Malformed identifiers: '', 'HP0000118' and '0000118' (no separator),
\* 'HP:000100a' and 'HP:' (suffix not a number), and the list that a repeated
\* id key leaves in current_term.
MalformedIds ==
  {Str(<<>>),
   Str(<<"H", "P">> \o PadDigits(118, 7)),
   Str(PadDigits(118, 7)),
   Str(<<"H", "P", ":", "0", "0", "0", "1", "0", "0", "a">>),
   Str(<<"H", "P", ":">>),
   List(<<HpoId(1), HpoId(2)>>)}

\* The values handed to _determine_category.
ClassifyInputs == {Str(id) : id \in WellFormedIds} \cup MalformedIds

\* A processor has been constructed; _determine_category is about to be called.
InitClassify ==
  /\ impl \in Impls
  /\ batch_size = DefaultBatchSize
  /\ pc = "classify"
  /\ cls_in \in {Some(id) : id \in ClassifyInputs}
  /\ cls_out = None
  /\ obo = <<>>
  /\ hpoa = <<>>
  /\ loc = OboLocals(OboStart(EmptySink, <<>>))
  /\ sink = EmptySink
  /\ sent = <<>>
  /\ raised = FALSE
  /\ run = 1
  /\ first = None
  /\ stats = NoStats
  /\ mine_i = 0
  /\ index = EmptyIndex
  /\ query = None
  /\ result = None

\* _determine_category(hpo_id) returns or raises: cls_out holds the category
\* (ok) or records that the call raised (~ok).
Classify ==
  /\ pc = "classify"
  /\ cls_out' = Some(CategoryOf(impl, cls_in[1]))
  /\ pc' = "classified"
  /\ UNCHANGED <<index, query, result>>
  /\ UNCHANGED <<impl, batch_size, obo, hpoa, loc, sink, sent, raised, run, first, stats,
                 mine_i, cls_in>>

NextClassify == Classify

SpecClassify == InitClassify /\ [][NextClassify]_vars

\* --------------------------------------------- the index specification
\* conn.py main(): an HPOParser, parse_obo, parse_phenotype_annotations, and
\* queries; a query may be called in any state of the index.
\* Largest number of [Term] blocks of an ontology file given to parse_obo.
MaxIndexTerms == 2
\* Largest number of data rows of an annotation file given to the index.
MaxIndexRows == 3

\* The block of term k, with an is_a line naming p unless p = 0.
TermBlock(k, p) ==
  <<TermLine, IdLine(k)>> \o (IF p = 0 THEN <<>> ELSE <<IsALine(p)>>)

\* The ontology files of n blocks; a parent is another term of the file or a
\* term the file does not define.
RECURSIVE IndexOboFilesOf(_)
IndexOboFilesOf(n) ==
  IF n = 0 THEN {<<>>}
  ELSE {f \o TermBlock(n, p) :
          f \in IndexOboFilesOf(n - 1), p \in (0..(MaxIndexTerms + 1)) \ {n}}

IndexOboFiles == UNION {IndexOboFilesOf(n) : n \in 0..MaxIndexTerms}

HeaderLine == <<"i", "d", "\n">>

IndexDiseases == {1, 2}

RECURSIVE RowsOfLength(_)
RowsOfLength(n) ==
  IF n = 0 THEN {<<>>}
  ELSE {Append(f, AnnotationLine(d, s)) :
          f \in RowsOfLength(n - 1), d \in IndexDiseases, s \in 1..2}

\* The annotation files: the header, then rows of two diseases and two symptoms.
IndexHpoaFiles == {<<HeaderLine>> \o rows : rows \in UNION {RowsOfLength(n) : n \in 0..MaxIndexRows}}

\* An identifier no line of any file carries.
UnknownId == HpoId(9)

QueryNames ==
  {"get_term_info", "get_ancestors", "get_descendants", "get_diseases_for_symptom",
   "get_symptoms_for_disease", "get_related_symptoms"}

QueryIds ==
  {HpoId(n) : n \in 1..(MaxIndexTerms + 1)} \cup {DiseaseId(d) : d \in IndexDiseases}
  \cup {UnknownId}

\* The call of a query by its name.
Answer(idx, name, id) ==
  CASE name = "get_term_info" -> GetTermInfo(idx, id)
    [] name = "get_ancestors" -> GetAncestors(idx, id)
    [] name = "get_descendants" -> GetDescendants(idx, id)
    [] name = "get_diseases_for_symptom" -> GetDiseasesForSymptom(idx, id)
    [] name = "get_symptoms_for_disease" -> GetSymptomsForDisease(idx, id)
    [] name = "get_related_symptoms" -> GetRelatedSymptoms(idx, id)

InitIndex ==
  /\ impl = "graph"
  /\ batch_size = DefaultBatchSize
  /\ pc = "new"
  /\ index = EmptyIndex
  /\ query = None
  /\ result = None
  /\ obo = <<>>
  /\ hpoa = <<>>
  /\ loc = OboLocals(OboStart(EmptySink, <<>>))
  /\ sink = EmptySink
  /\ sent = <<>>
  /\ raised = FALSE
  /\ run = 1
  /\ first = None
  /\ stats = NoStats
  /\ mine_i = 0
  /\ cls_in = None
  /\ cls_out = None

\* parser.parse_obo('hp.obo')
IndexParseObo ==
  /\ pc = "new"
  /\ \E file \in IndexOboFiles :
       \E r \in {ParseObo(index, file)} :
         /\ obo' = file
         /\ index' = r.index
         /\ pc' = IF r.error THEN "failed" ELSE "terms"
  /\ query' = None
  /\ result' = None
  /\ UNCHANGED <<impl, batch_size, hpoa, loc, sink, sent, raised, run, first, stats,
                 mine_i, cls_in, cls_out>>

\* parser.parse_phenotype_annotations('phenotype.hpoa')
IndexParseAnnotations ==
  /\ pc = "terms"
  /\ \E file \in IndexHpoaFiles :
       \E r \in {ParsePhenotypeAnnotations(index, file)} :
         /\ hpoa' = file
         /\ index' = r.index
         /\ pc' = IF r.error THEN "failed" ELSE "ready"
  /\ query' = None
  /\ result' = None
  /\ UNCHANGED <<impl, batch_size, obo, loc, sink, sent, raised, run, first, stats,
                 mine_i, cls_in, cls_out>>

\* A query of the index; it changes no field of the index.
Query ==
  /\ pc \in {"new", "terms", "ready"}
  /\ \E name \in QueryNames, id \in QueryIds :
       /\ query' = Some([name |-> name, id |-> id])
       /\ result' = Some(Answer(index, name, id))
  /\ UNCHANGED <<impl, batch_size, pc, obo, hpoa, loc, sink, sent, raised, run, first,
                 stats, mine_i, cls_in, cls_out, index>>

NextIndex == IndexParseObo \/ IndexParseAnnotations \/ Query

SpecIndex == InitIndex /\ [][NextIndex]_vars

\* ------------------------------------------ the annotation-parser specification
\* process_phenotype_annotations on a file of arbitrary lines: rows of four
\* and of ten fields, a comment, a short row, a row whose first field is
\* empty, a blank line.
CommentLine == <<"#", "c", "\n">>
ShortRow == DiseaseId(1) \o <<"\t", "n", "\n">>
LongRow ==
  DiseaseId(1) \o <<"\t", "n", "\t", "\t">> \o HpoId(2)
  \o <<"\t", "r", "\t", "e", "\t", "o", "\t", "f", "\t", "s", "\t", "m", "\n">>
LeadingTabRow == <<"\t", "n", "\t", "\t">> \o HpoId(1) \o <<"\t", "r", "\n">>

AnnotLines ==
  {AnnotationLine(1, 1), LongRow, CommentLine, ShortRow, LeadingTabRow, <<"\n">>}

InitAnnot ==
  /\ impl \in Impls
  /\ batch_size \in 1..MaxBatchSize
  /\ pc = "header"
  /\ obo = <<>>
  /\ hpoa = <<>>
  /\ loc = HpoaLocals(HpoaStart(EmptySink, <<>>))
  /\ sink = EmptySink
  /\ sent = <<>>
  /\ raised = FALSE
  /\ run = 1
  /\ first = None
  /\ stats = NoStats
  /\ mine_i = 0
  /\ cls_in = None
  /\ cls_out = None
  /\ index = EmptyIndex
  /\ query = None
  /\ result = None

\* next(file): the first line is consumed, whatever it holds.
SkipHeader ==
  /\ pc = "header"
  /\ \E line \in AnnotLines : hpoa' = <<line>>
  /\ pc' = "rows"
  /\ UNCHANGED <<index, query, result>>
  /\ UNCHANGED <<impl, batch_size, obo, loc, sink, sent, raised, run, first, stats,
                 mine_i, cls_in, cls_out>>

\* next(file) on a file without lines: StopIteration, which the handler of
\* process_phenotype_annotations prints and re-raises.
NoHeader ==
  /\ pc = "header"
  /\ pc' = "failed"
  /\ UNCHANGED <<index, query, result>>
  /\ UNCHANGED <<impl, batch_size, obo, hpoa, loc, sink, sent, raised, run, first, stats,
                 mine_i, cls_in, cls_out>>

\* One iteration of the loop over the lines after the first.
ReadRow ==
  /\ pc = "rows"
  /\ Len(hpoa) < 1 + MaxRows
  /\ \E line \in AnnotLines :
       \E st \in {HpoaLine(batch_size, HpoaState, line, 0)} :
         /\ hpoa' = Append(hpoa, line)
         /\ loc' = HpoaLocals(st)
         /\ sink' = st.sink
         /\ sent' = st.sent
  /\ UNCHANGED <<index, query, result>>
  /\ UNCHANGED <<impl, batch_size, pc, obo, raised, run, first, stats, mine_i, cls_in,
                 cls_out>>

\* The end of the file: the remaining batch is sent.
EndRows ==
  /\ pc = "rows"
  /\ \E st \in {HpoaEnd(HpoaState, 0)} :
       /\ loc' = HpoaLocals(st)
       /\ sink' = st.sink
       /\ sent' = st.sent
  /\ pc' = "done"
  /\ UNCHANGED <<index, query, result>>
  /\ UNCHANGED <<impl, batch_size, obo, hpoa, raised, run, first, stats, mine_i, cls_in,
                 cls_out>>

NextAnnot == SkipHeader \/ NoHeader \/ ReadRow \/ EndRows

SpecAnnot == InitAnnot /\ [][NextAnnot]_vars

\* ------------------------------------------------ the term-parser specification
\* process_obo_file on a file of arbitrary lines, over a sink that never fails.
\* Largest number of lines of such a file.
MaxParseLines == 5

QuotedDefLine == <<"d", "e", "f", ":", " ", "\"", "a", "\"", "\n">>
BareDefLine == <<"d", "e", "f", ":", " ", "a", "\n">>
NoColonLine == <<"x", "\n">>
UnknownKeyLine == <<"y", ":", " ", "a", "\n">>

ParseLines ==
  {TermLine, IdLine(1), QuotedDefLine, BareDefLine, NoColonLine, UnknownKeyLine}

InitParse ==
  /\ impl \in Impls
  /\ batch_size \in 1..MaxBatchSize
  /\ pc = "obo"
  /\ obo = <<>>
  /\ hpoa = <<>>
  /\ loc = OboLocals(OboStart(EmptySink, <<>>))
  /\ sink = EmptySink
  /\ sent = <<>>
  /\ raised = FALSE
  /\ run = 1
  /\ first = None
  /\ stats = NoStats
  /\ mine_i = 0
  /\ cls_in = None
  /\ cls_out = None
  /\ index = EmptyIndex
  /\ query = None
  /\ result = None

\* One iteration of the loop of process_obo_file, on any line.
ParseLine ==
  /\ pc = "obo"
  /\ Len(obo) < MaxParseLines
  /\ \E line \in ParseLines :
       \E st \in {OboLine(impl, batch_size, OboState, line, 0)} :
         /\ obo' = Append(obo, line)
         /\ loc' = OboLocals(st)
         /\ sink' = st.sink
         /\ sent' = st.sent
         /\ pc' = IF st.error THEN "failed" ELSE "obo"
  /\ UNCHANGED <<index, query, result>>
  /\ UNCHANGED <<impl, batch_size, hpoa, raised, run, first, stats, mine_i, cls_in,
                 cls_out>>

\* The end of the file: the remaining batch is sent and the counts reported.
EndParse ==
  /\ pc = "obo"
  /\ \E st \in {OboEnd(OboState, 0)} :
       /\ loc' = OboLocals(st)
       /\ sink' = st.sink
       /\ sent' = st.sent
       /\ stats' = [stats EXCEPT !.Phenotype = Some(st.terms_processed),
                                 !.IS_A = Some(st.relationships_created)]
  /\ pc' = "parsed"
  /\ UNCHANGED <<index, query, result>>
  /\ UNCHANGED <<impl, batch_size, obo, hpoa, raised, run, first, mine_i, cls_in, cls_out>>

NextParse == ParseLine \/ EndParse

SpecParse == InitParse /\ [][NextParse]_vars

\* ------------------------------------------------------------------ claims
\* Number of [Term] blocks of the lines read that carry an id.
IdBlocks(read) == Cardinality({i \in 1..Len(read) : StartsWith(read[i], <<"i", "d", ":">>)})

\* A term record: the dict process_obo_file appends for a block with an id.
IsTermRecord(item) == "id" \in DOMAIN item

\* Number of term records among the batches handed to the sink.
RECURSIVE TermRecordsSent(_)
TermRecordsSent(log) ==
  IF log = <<>> THEN 0
  ELSE Len(SelectSeq(Head(log), IsTermRecord)) + TermRecordsSent(Tail(log))

\* Term ingestion has returned normally, and ingestion was not run again.
TermsIngestedOnce == run = 1 /\ pc \in {"hpoa", "mine", "cluster", "algo", "metrics"}

\* C1: when term ingestion has returned, the parser has emitted exactly one
\* term record for each [Term] block of the file that carries an id, the last
\* block (followed by the end of the file) included.
C1_OneRecordPerBlock ==
  TermsIngestedOnce =>
    /\ stats.Phenotype = Some(IdBlocks(obo))
    /\ TermRecordsSent(sent) = IdBlocks(obo)

\* The ontology of the scenario: HP:0000001 without is_a, HP:0000002 with one
\* entry is_a: HP:0000001.
TwoTermFile == <<TermLine, IdLine(1), TermLine, IdLine(2), IsALine(1)>>

\* C2: ingesting the two-term ontology leaves exactly the IS_A edge
\* HP:0000002 -> HP:0000001 in the sink.
C2_TwoTermsOneEdge ==
  (TermsIngestedOnce /\ obo = TwoTermFile) =>
    sink.isa = {<<Str(HpoId(2)), Str(HpoId(1))>>}

\* C3: running term and annotation ingestion a second time over the same files
\* leaves the sink as the first run left it (compared when the second run has
\* returned and no later pass has started).
C3_IngestionIdempotent == (run = 2 /\ pc = "mine" /\ mine_i = 0) => sink = first[1]

\* Nothing that was in sink a is missing from sink b.
SinkKept(a, b) ==
  /\ DOMAIN a.phen \subseteq DOMAIN b.phen
  /\ a.isa \subseteq b.isa
  /\ DOMAIN a.dis \subseteq DOMAIN b.dis
  /\ DOMAIN a.hasp \subseteq DOMAIN b.hasp

\* C4: a sink failure during ingestion aborts the run at that batch: the error
\* reaches main() (pc = "failed"), and from then on no batch is handed to the
\* sink (no retry, no further batch), no pass starts and the sink keeps what
\* the earlier batches wrote.
C4_FailFast ==
  [][/\ raised' => pc' = "failed"
     /\ raised => (sent' = sent /\ sink' = sink /\ pc' = pc)
     /\ (raised' /\ ~raised) => SinkKept(sink, sink')]_vars

\* C4 witness: the sink raised on a batch after an earlier batch was applied,
\* and the phenotype the earlier batch wrote is still there.
C4_Witness ==
  /\ raised
  /\ pc = "failed"
  /\ Len(sent) >= 2
  /\ DOMAIN sink.phen # {}

\* The enhancement passes after create_symptom_relationships has returned.
AfterMining == pc \in {"cluster", "algo", "metrics"}

\* The diseases linked by HAS_PHENOTYPE to both p1 and p2.
SharedDiseases(p1, p2) ==
  {d \in DOMAIN sink.dis : <<d, p1>> \in DOMAIN sink.hasp /\ <<d, p2>> \in DOMAIN sink.hasp}

\* The scenario of the mining claims: D1..D6 linked to A and B, D7 linked to A
\* and C, with A = HP:0000002, B = HP:0000001, C = HP:0000003.
ScenarioRows == MineHpoaFile(6, 1, 2)
TermA == Str(HpoId(2))
TermB == Str(HpoId(1))
TermC == Str(HpoId(3))

\* C6: after association mining, an ASSOCIATED_WITH edge p1 -> p2 between
\* distinct phenotypes exists if and only if at least 5 diseases are linked to
\* both; in the D1..D7 scenario A -> B exists with co_occurrence_count 6 and
\* A -> C does not exist.
C6_EdgeIffFiveShared ==
  AfterMining =>
    /\ \A p1 \in DOMAIN sink.phen, p2 \in DOMAIN sink.phen :
         p1 # p2 =>
           (<<p1, p2>> \in DOMAIN sink.assoc <=> Cardinality(SharedDiseases(p1, p2)) >= 5)
    /\ \A e \in DOMAIN sink.assoc : e[1] # e[2]
    /\ hpoa = ScenarioRows =>
         /\ <<TermA, TermB>> \in DOMAIN sink.assoc
         /\ sink.assoc[<<TermA, TermB>>].co_occurrence_count = Some(6)
         /\ <<TermA, TermC>> \notin DOMAIN sink.assoc

\* C6 witness: the miner has run on the D1..D7 scenario and written A -> B.
C6_Witness ==
  /\ pc = "cluster"
  /\ hpoa = ScenarioRows
  /\ Cardinality(SharedDiseases(TermA, TermB)) = 6
  /\ Cardinality(SharedDiseases(TermA, TermC)) = 1
  /\ <<TermA, TermB>> \in DOMAIN sink.assoc

\* C7: every ASSOCIATED_WITH edge p1 -> p2 carries correlation_strength =
\* co_occurrence_count / (number of HAS_PHENOTYPE edges into p1); in the D1..D7
\* scenario correlation_strength(A -> B) = 6/7.
C7_StrengthOverSourceTotal ==
  AfterMining =>
    /\ \A e \in DOMAIN sink.assoc :
         /\ sink.assoc[e].co_occurrence_count # None
         /\ sink.assoc[e].correlation_strength =
              Some(<<sink.assoc[e].co_occurrence_count[1],
                     Cardinality({h \in DOMAIN sink.hasp : h[2] = e[1]})>>)
    /\ hpoa = ScenarioRows =>
         sink.assoc[<<TermA, TermB>>].correlation_strength = Some(<<6, 7>>)

\* C7 witness: in the mined D1..D7 scenario A has 7 HAS_PHENOTYPE edges, B has
\* 6, and A -> B carries a correlation_strength.
C7_Witness ==
  /\ AfterMining
  /\ hpoa = ScenarioRows
  /\ Cardinality({h \in DOMAIN sink.hasp : h[2] = TermA}) = 7
  /\ Cardinality({h \in DOMAIN sink.hasp : h[2] = TermB}) = 6
  /\ <<TermA, TermB>> \in DOMAIN sink.assoc
  /\ sink.assoc[<<TermA, TermB>>].correlation_strength # None

\* The phenotypes joined to p by an ASSOCIATED_WITH edge in either direction.
AssocNeighbours(p) ==
  {q \in DOMAIN sink.phen : <<p, q>> \in DOMAIN sink.assoc \/ <<q, p>> \in DOMAIN sink.assoc}

\* C8: after the clustering-coefficient pass, a phenotype with exactly two
\* neighbours that are joined to each other has cluster_coefficient 1.0, and a
\* phenotype with no neighbour or one neighbour has cluster_coefficient 0.
C8_ClusterCoefficient ==
  pc = "metrics" =>
    \A p \in DOMAIN sink.phen :
      LET nb == AssocNeighbours(p)
          cc == sink.phen[p].cluster_coefficient
      IN  /\ (Cardinality(nb) = 2 /\ \A x \in nb : nb \ {x} \subseteq AssocNeighbours(x))
               => (cc # None /\ cc[1][1] = cc[1][2])
          /\ Cardinality(nb) <= 1 => (cc # None /\ cc[1][1] = 0)

\* C9: after the hub pass, is_hub of every phenotype equals (number of
\* ASSOCIATED_WITH edges incident to it, in either direction) > 10; a phenotype
\* with none is not a hub.
C9_HubIffMoreThanTen ==
  pc = "metrics" =>
    \A p \in DOMAIN sink.phen :
      sink.phen[p].is_hub =
        Some(Cardinality({e \in DOMAIN sink.assoc : e[1] = p \/ e[2] = p}) > 10)

\* C5: every batch handed to the sink holds at most batch_size records.
C5_BatchAtMostB == \A i \in 1..Len(sent) : Len(sent[i]) <= batch_size

\* C10: for every rule (start, end, category) of the classifier's table, the
\* identifier at the start of the range and the identifier at its end are
\* classified as that rule's category.
C10_BoundsMapToOwnRule ==
  cls_out # None =>
    \A i \in 1..Len(RulesOf(impl)) :
      (cls_in[1] = Str(RulesOf(impl)[i][1]) \/ cls_in[1] = Str(RulesOf(impl)[i][2]))
        => cls_out[1] = [ok |-> TRUE, v |-> RulesOf(impl)[i][3]]

\* The rule table of a build with numeric bounds.
NumericRules(im) == IF im = "graph" THEN GraphCategories ELSE PhenotypeRanges

\* The category of the first rule, in declared order, whose range holds n;
\* 'Other' when no range does.
FirstContaining(rules, n) ==
  IF \E i \in 1..Len(rules) : rules[i][1] <= n /\ n <= rules[i][2]
  THEN rules[CHOOSE i \in 1..Len(rules) :
               /\ rules[i][1] <= n /\ n <= rules[i][2]
               /\ \A j \in 1..(i - 1) : ~(rules[j][1] <= n /\ n <= rules[j][2])][3]
  ELSE "Other"

\* The numeric suffix of a well-formed identifier 'PP:NNNNNNN'.
SuffixOf(id) == DigitsValue(SubSeq(id, 4, 10))

\* C11: a malformed identifier (empty, no ':' separator, non-numeric suffix, or
\* the list of a repeated id key) is classified 'Other', and the classifier
\* does not raise.
C11_MalformedIsOther ==
  (cls_out # None /\ cls_in[1] \in MalformedIds) =>
    cls_out[1] = [ok |-> TRUE, v |-> "Other"]

\* C20: a well-formed identifier PREFIX:NNNNNNN is classified as the first
\* rule, in declared order, whose range contains its numeric suffix, and as
\* 'Other' when no rule's range contains it.
C20_FirstContainingRuleWins ==
  (cls_out # None /\ cls_in[1].kind = "str" /\ cls_in[1].v \in WellFormedIds) =>
    cls_out[1] = [ok |-> TRUE, v |-> FirstContaining(NumericRules(impl), SuffixOf(cls_in[1].v))]

\* The order of the passes of main(): each position and the one that follows.
PassOrder ==
  {<<"obo", "hpoa">>, <<"hpoa", "mine">>, <<"mine", "cluster">>, <<"cluster", "algo">>,
   <<"algo", "metrics">>}

\* C15: the passes run in the order term ingestion, annotation ingestion,
\* association mining, clusters, graph algorithms, composite metrics, each
\* starting when the one before has returned with its batch flushed, and a
\* run fails only where a sink transaction failed: without one it goes
\* through the composite-metrics pass.
C15_PassesInOrderAndComplete ==
  [][/\ (pc' # pc /\ pc' # "failed") => (<<pc, pc'>> \in PassOrder /\ loc'.batch = <<>>)
     /\ (pc' = "failed" /\ pc # "failed") => raised']_vars

\* C16: when the engine (mining, clusters, graph algorithms) has run a second
\* time on an unchanged store, the ASSOCIATED_WITH edges and every property of
\* every term and edge are as the first run left them.
C16_EngineIdempotent == (pc = "metrics" /\ run = 2) => sink = first[1]

\* C16 witness: the engine has run twice on a store where it wrote edges, a
\* cross-cluster strength and hub flags.
C16_Witness ==
  /\ pc = "metrics"
  /\ run = 2
  /\ \E e \in DOMAIN sink.assoc : sink.assoc[e].cross_cluster = Some(TRUE)
  /\ \E p \in DOMAIN sink.phen : sink.phen[p].is_hub # None
  /\ \E p \in DOMAIN sink.phen : sink.phen[p].cluster_coefficient # None

\* The terms an ontology file given to the index defines.
FileTerms(file) ==
  {HpoId(k) : k \in {n \in 1..MaxIndexTerms : \E i \in 1..Len(file) : file[i] = IdLine(n)}}

\* The is_a statements of the file, as pairs (term, parent): the is_a line of
\* a block follows its id line.
FileIsA(file) ==
  {<<HpoId(e[1]), HpoId(e[2])>> :
     e \in {x \in (1..MaxIndexTerms) \X (1..(MaxIndexTerms + 1)) :
              \E i \in 1..(Len(file) - 1) : file[i] = IdLine(x[1]) /\ file[i + 1] = IsALine(x[2])}}

\* The pairs joined by a path of one or more is_a statements.
RECURSIVE IsAPaths(_)
IsAPaths(R) ==
  LET R2 == R \cup {<<ab[1][1], ab[2][2]>> : ab \in {x \in R \X R : x[1][2] = x[2][1]}}
  IN  IF R2 = R THEN R ELSE IsAPaths(R2)

\* The parents, grandparents and so on of t; its children, grandchildren and so on.
Above(file, t) == {e[2] : e \in {x \in IsAPaths(FileIsA(file)) : x[1] = t}}
Below(file, t) == {e[1] : e \in {x \in IsAPaths(FileIsA(file)) : x[2] = t}}

Asked(name) == pc \in {"terms", "ready"} /\ query # None /\ query[1].name = name

\* C12: get_ancestors(t) of a term t the file defines is exactly the set of
\* terms reached from t along one or more is_a statements term -> parent (so
\* never a child of t that is not also above it).
C12_AncestorsAreParents ==
  (Asked("get_ancestors") /\ query[1].id \in FileTerms(obo)) =>
    result[1] = [ok |-> TRUE, v |-> Above(obo, query[1].id)]

\* C13: get_descendants(t) of a term t the file defines is exactly the set of
\* terms with a path of one or more is_a statements leading to t (so never a
\* parent of t that is not also below it).
C13_DescendantsAreChildren ==
  (Asked("get_descendants") /\ query[1].id \in FileTerms(obo)) =>
    result[1] = [ok |-> TRUE, v |-> Below(obo, query[1].id)]

\* The identifiers the files parsed so far carry: in an id line, in an is_a
\* line, or in a row of the annotation file.
Parsed ==
  FileTerms(obo) \cup {e[2] : e \in FileIsA(obo)}
  \cup UNION {{DiseaseId(r[1]), HpoId(r[2])} :
                r \in {x \in IndexDiseases \X (1..2) :
                         \E i \in 1..Len(hpoa) : hpoa[i] = AnnotationLine(x[1], x[2])}}

\* The empty result of a query: no entry, no term, no count.
EmptyResult(name) ==
  IF name \in {"get_ancestors", "get_descendants"} THEN {} ELSE <<>>

\* C14: a query with an identifier that no parsed line carries returns an
\* empty result and does not raise, whether the index is new, holds the terms
\* only, or holds terms and annotations.
C14_UnknownIdIsEmpty ==
  (query # None /\ query[1].id \notin Parsed) =>
    result[1] = [ok |-> TRUE, v |-> EmptyResult(query[1].name)]

\* A graph query with an unknown identifier on an index that holds is_a edges
\* and annotations.
C14_Witness ==
  /\ pc = "ready" /\ query # None
  /\ query[1].id = UnknownId /\ query[1].name = "get_ancestors"
  /\ index.edges # {} /\ index.symptom_diseases # <<>>
  /\ result = Some([ok |-> TRUE, v |-> {}])

\* Disease d exhibits symptom n: some row of the annotation file lists the pair.
Exhibits(d, n) == \E i \in 2..Len(hpoa) : hpoa[i] = AnnotationLine(d, n)

\* The diseases that exhibit both symptoms.
DiseasesWithBoth(n, m) == {d \in IndexDiseases : Exhibits(d, n) /\ Exhibits(d, m)}

\* C19: get_related_symptoms(s) maps exactly the symptoms other than s that
\* some disease exhibiting s exhibits, each to the number of diseases that
\* exhibit both; s is not a key, also when a pair is listed on several rows.
C19_RelatedCountsDiseases ==
  \A n \in 1..2 :
    (pc = "ready" /\ query = Some([name |-> "get_related_symptoms", id |-> HpoId(n)])) =>
      /\ result[1].ok
      /\ {result[1].v[i].k : i \in 1..Len(result[1].v)}
           = {HpoId(m) : m \in {x \in (1..2) \ {n} : DiseasesWithBoth(n, x) # {}}}
      /\ \A i \in 1..Len(result[1].v), m \in 1..2 :
           result[1].v[i].k = HpoId(m) =>
             result[1].v[i].v = Cardinality(DiseasesWithBoth(n, m))

\* The tab-separated fields of a row: the line without its line end.
FieldsOf(line) ==
  Split(IF line # <<>> /\ line[Len(line)] = "\n" THEN SubSeq(line, 1, Len(line) - 1)
        ELSE line, "\t")

\* Field i of a row (counted from 0), '' when the row is too short.
FieldAt(line, i) == IF Len(FieldsOf(line)) > i THEN FieldsOf(line)[i + 1] ELSE <<>>

\* The record of a row with at least four fields.
RecordOf(line) ==
  [disease_id |-> FieldAt(line, 0), disease_name |-> FieldAt(line, 1),
   phenotype_id |-> FieldAt(line, 3), evidence |-> FieldAt(line, 5),
   frequency |-> FieldAt(line, 8), onset |-> FieldAt(line, 9)]

\* The records the lines i.. of a file call for.
RECURSIVE RecordsFrom(_, _)
RecordsFrom(lines, i) ==
  IF i > Len(lines) THEN <<>>
  ELSE (IF ~StartsWith(lines[i], <<"#">>) /\ Len(FieldsOf(lines[i])) >= 4
        THEN <<RecordOf(lines[i])>> ELSE <<>>) \o RecordsFrom(lines, i + 1)

\* The records emitted so far: the batches sent, then the batch being filled.
RECURSIVE Concat(_)
Concat(batches) == IF batches = <<>> THEN <<>> ELSE batches[1] \o Concat(Tail(batches))

\* C17: the first line is skipped, every '#' line is skipped, every other row
\* with at least 4 tab-separated fields gives exactly one record with the
\* fields at their offsets, a shorter row gives none, and no row raises.
C17_OneRecordPerRow ==
  (pc \in {"rows", "done"}) => Concat(sent) \o loc.batch = RecordsFrom(hpoa, 2)

\* The keys the node and relationship records are built from.
RecognizedKeys == {KeyId, KeyName, KeyDef, KeySynonym, KeyComment, KeyXref, KeyIsA}

\* The part of the accumulated term the records are built from.
Recognized(cur) == [k \in RecognizedKeys |-> DictGet(cur, k, None)]

\* The key of a line, None for a line without a colon.
KeyOfLine(line) ==
  IF Contains(line, ":") THEN Some(Strip(SplitOnce(Strip(line), ":")[1])) ELSE None

\* C18: no line makes term parsing raise (a def line without a quoted part, a
\* repeated def line and a key: value line before the first [Term] included),
\* and a line without a colon or without a recognized key leaves the
\* accumulated term as it was.
C18_BadLineNeverAborts ==
  [][(pc = "obo" /\ obo' # obo) =>
       /\ pc' # "failed"
       /\ (obo'[Len(obo')] # TermLine
           /\ (KeyOfLine(obo'[Len(obo')]) = None
               \/ KeyOfLine(obo'[Len(obo')])[1] \notin RecognizedKeys))
          => Recognized(loc'.current_term) = Recognized(loc.current_term)]_vars

\* C21: after the degree-centrality pass every phenotype carries
\* degree_centrality = the number of HAS_PHENOTYPE edges into it, 0 included.
C21_DegreeCentralityCountsEdges ==
  pc = "metrics" =>
    \A p \in DOMAIN sink.phen :
      sink.phen[p].degree_centrality = Some(Cardinality({h \in DOMAIN sink.hasp : h[2] = p}))

\* The terms that have p as an is_a parent; the terms above p.
IsAChildren(p) == {e[1] : e \in {x \in sink.isa : x[2] = p}}
IsAAbove(p) == {e[2] : e \in {x \in IsAPaths(sink.isa) : x[1] = p}}

\* The HAS_PHENOTYPE edges into p; the ASSOCIATED_WITH edges at p.
HasPhenotypeAt(p) == {h \in DOMAIN sink.hasp : h[2] = p}
AssociatedAt(p) == {e \in DOMAIN sink.assoc : e[1] = p \/ e[2] = p}

\* C22: the composite-metrics pass does not fail, and after it every phenotype
\* carries prevalence = its HAS_PHENOTYPE edges, connectivity = its
\* ASSOCIATED_WITH edges, specificity = 1/prevalence or 0, and leaf_node = no
\* term has it as parent; terms without edges included.
C22_CompositeMetrics ==
  [][(pc = "metrics" /\ pc' # "metrics") =>
       /\ pc' = "done"
       /\ \A p \in DOMAIN sink'.phen :
            /\ sink'.phen[p].prevalence = Some(Cardinality(HasPhenotypeAt(p)))
            /\ sink'.phen[p].connectivity = Some(Cardinality(AssociatedAt(p)))
            /\ sink'.phen[p].specificity =
                 Some(IF HasPhenotypeAt(p) # {} THEN <<1, Cardinality(HasPhenotypeAt(p))>>
                      ELSE <<0, 1>>)
            /\ sink'.phen[p].leaf_node = Some(IsAChildren(p) = {})]_vars

\* C23: after the composite-metrics pass hierarchical_level(p) is the number
\* of distinct terms reached from p along IS_A edges: 3 at the bottom of a
\* diamond.
C23_LevelCountsAncestors ==
  pc = "done" =>
    \A p \in DOMAIN sink.phen :
      sink.phen[p].hierarchical_level = Some(Cardinality(IsAAbove(p)))

\* The phenotypes that share the category of p.
SameCategory(p) == {q \in DOMAIN sink.phen : sink.phen[q].category = sink.phen[p].category}

\* C24: after create_symptom_clusters every phenotype has cluster_id = its
\* category and cluster_size = the number of phenotypes of that category; an
\* ASSOCIATED_WITH edge between different clusters carries cross_cluster = true
\* and cluster_connection_strength = co_occurrence_count / (the two cluster
\* sizes added); no edge inside a cluster carries cross_cluster = true.
C24_ClustersAndCrossStrength ==
  pc \in {"algo", "metrics"} =>
    /\ \A p \in DOMAIN sink.phen :
         /\ sink.phen[p].cluster_id = sink.phen[p].category
         /\ sink.phen[p].cluster_size = Some(Cardinality(SameCategory(p)))
    /\ \A e \in DOMAIN sink.assoc :
         IF sink.phen[e[1]].category # sink.phen[e[2]].category
         THEN /\ sink.assoc[e].cross_cluster = Some(TRUE)
              /\ sink.assoc[e].cluster_connection_strength =
                   Some(<<sink.assoc[e].co_occurrence_count[1],
                          Cardinality(SameCategory(e[1])) + Cardinality(SameCategory(e[2]))>>)
         ELSE sink.assoc[e].cross_cluster # Some(TRUE)

\* C24 witness: the cluster pass has run on a store with an edge between two
\* clusters and an edge inside one.
C24_Witness ==
  /\ pc = "algo"
  /\ \E e \in DOMAIN sink.assoc : sink.phen[e[1]].cluster_id # sink.phen[e[2]].cluster_id
  /\ \E e \in DOMAIN sink.assoc :
       /\ sink.phen[e[1]].cluster_id = sink.phen[e[2]].cluster_id
       /\ sink.phen[e[1]].cluster_id # None

\* The kinds of record a batch holds.
IsAnnotationRecord(r) == "disease_id" \in DOMAIN r
IsEdgeRecord(r) == "type" \in DOMAIN r

\* The ids of the node records among the batches handed to the sink.
NodeIdsSent(log) ==
  UNION {{log[i][j].id : j \in {k \in 1..Len(log[i]) :
                                  ~IsAnnotationRecord(log[i][k]) /\ ~IsEdgeRecord(log[i][k])}} :
         i \in 1..Len(log)}

\* Every record of the batch whose terms exist in s has had its effect on s.
BatchApplied(batch, s) ==
  \A i \in 1..Len(batch) :
    IF IsAnnotationRecord(batch[i])
    THEN /\ Str(batch[i].disease_id) \in DOMAIN s.dis
         /\ Str(batch[i].phenotype_id) \in DOMAIN s.phen
              => <<Str(batch[i].disease_id), Str(batch[i].phenotype_id)>> \in DOMAIN s.hasp
    ELSE IF IsEdgeRecord(batch[i])
    THEN (batch[i].child_id \in DOMAIN s.phen /\ Str(batch[i].parent_id) \in DOMAIN s.phen)
           => <<batch[i].child_id, Str(batch[i].parent_id)>> \in s.isa
    ELSE batch[i].id \in DOMAIN s.phen

\* C25: an is_a record or annotation whose target term is not in the sink
\* creates no edge and no node for the missing id, raises nothing (ingestion
\* fails only when the sink failed), and the other records of its batch are
\* applied; every IS_A and HAS_PHENOTYPE edge has both ends in the sink.
C25_DanglingDropped ==
  [][/\ \A e \in sink'.isa : e[1] \in DOMAIN sink'.phen /\ e[2] \in DOMAIN sink'.phen
     /\ \A h \in DOMAIN sink'.hasp : h[1] \in DOMAIN sink'.dis /\ h[2] \in DOMAIN sink'.phen
     /\ DOMAIN sink'.phen \subseteq NodeIdsSent(sent')
     /\ (pc \in {"obo", "hpoa"} /\ pc' = "failed") => raised'
     /\ (Len(sent') = Len(sent) + 1 /\ pc' # "failed")
          => BatchApplied(sent'[Len(sent')], sink')]_vars

\* C25 witness: a batch with an is_a record naming a term that is not in the
\* sink and a node record that was applied, and an annotation of a phenotype
\* that is not in the sink whose disease was merged.
C25_Witness ==
  /\ pc \notin {"failed", "obo"}
  /\ \E i \in 1..Len(sent) : \E j \in 1..Len(sent[i]), k \in 1..Len(sent[i]) :
       /\ IsEdgeRecord(sent[i][j])
       /\ \E n \in 1..MaxTerms : sent[i][j].parent_id = HpoId(n)
       /\ Str(sent[i][j].parent_id) \notin DOMAIN sink.phen
       /\ ~IsEdgeRecord(sent[i][k]) /\ ~IsAnnotationRecord(sent[i][k])
       /\ sent[i][k].id \in DOMAIN sink.phen
  /\ \E i \in 1..Len(sent) : \E j \in 1..Len(sent[i]) :
       /\ IsAnnotationRecord(sent[i][j])
       /\ Str(sent[i][j].phenotype_id) \notin DOMAIN sink.phen
       /\ Str(sent[i][j].disease_id) \in DOMAIN sink.dis

\* The is_a statements (k, p) of an ontology file: an is_a line naming p in the
\* block of the id line of k.
OboIsA(file) ==
  {e \in (1..MaxTerms) \X (1..MaxTerms) :
     \E i \in 1..Len(file), j \in 1..Len(file) :
       /\ i < j
       /\ file[i] = IdLine(e[1])
       /\ file[j] = IsALine(e[2])
       /\ \A m \in (i + 1)..(j - 1) : file[m] # TermLine}

\* The terms an ontology file defines.
OboTerms(file) == {k \in 1..MaxTerms : \E i \in 1..Len(file) : file[i] = IdLine(k)}

\* C26: when term ingestion has returned without sink failure, the sink holds
\* the IS_A edge of every is_a statement whose child and parent are both terms
\* of the file, for every batch size and every order of the terms.
C26_EveryIsAEdgeStored ==
  TermsIngestedOnce =>
    \A e \in OboIsA(obo) :
      e[2] \in OboTerms(obo) => <<Str(HpoId(e[1])), Str(HpoId(e[2]))>> \in sink.isa

\* ------------------------------------------------------------------ C27
\* Every record handed to an upsert call so far, followed by the records still
\* in the in-memory batch.
Handled == Concat(sent) \o loc.batch

\* The number of records the run has appended to a batch: the counters of the
\* loop in progress and the counts the finished loops returned.
Appended ==
  CASE pc = "obo" -> loc.terms_processed + loc.relationships_created
    [] pc = "hpoa" -> stats.Phenotype[1] + stats.IS_A[1] + loc.diseases_processed
    [] OTHER -> stats.Phenotype[1] + stats.IS_A[1] + stats.Disease[1]

IsPrefixOf(a, b) == Len(a) <= Len(b) /\ SubSeq(b, 1, Len(a)) = a

MinedEdges(s) ==
  [e \in DOMAIN s.assoc |-> <<s.assoc[e].co_occurrence_count, s.assoc[e].correlation_strength>>]

\* The page sizes compared: one phenotype per page up to more than all of them.
PageSizes == 1..(NumPhens + 1)

\* C28: when create_symptom_relationships has run over a store, the edges it
\* leaves, with their co_occurrence_count and correlation_strength, are the
\* edges the loop leaves over the same store with every page size P >= 1.
C28_PageSizeIrrelevant ==
  [][(pc = "mine" /\ pc' = "cluster")
        => \A P \in PageSizes :
             MinedEdges(CreateSymptomRelationshipsPaged([sink EXCEPT !.assoc = << >>], P))
               = MinedEdges(sink')]_vars

\* Mining has left edges between terms that a page size of 1, 2 or 3 puts on
\* different pages.
C28_Witness ==
  /\ pc = "cluster"
  /\ run = 1
  /\ \E e \in DOMAIN sink.assoc :
       \E i \in 1..NumPhens, j \in 1..NumPhens :
          /\ PhenotypeIds(sink)[i] = e[1]
          /\ PhenotypeIds(sink)[j] = e[2]
          /\ j - i >= 3

\* ------------------------------------------------------------------ C29
\* C29: after mining, an edge p1 -> p2 exists exactly when p2 -> p1 exists and
\* the two carry the same co_occurrence_count; no edge joins a term to itself;
\* the correlation_strength co / total of every edge has 0 < co <= total.
C29_SymmetricAssociations ==
  AfterMining =>
    \A e \in DOMAIN sink.assoc :
      /\ <<e[2], e[1]>> \in DOMAIN sink.assoc
      /\ sink.assoc[<<e[2], e[1]>>].co_occurrence_count = sink.assoc[e].co_occurrence_count
      /\ e[1] # e[2]
      /\ sink.assoc[e].correlation_strength # None
      /\ 0 < sink.assoc[e].correlation_strength[1][1]
      /\ sink.assoc[e].correlation_strength[1][1] <= sink.assoc[e].correlation_strength[1][2]

\* Mining has left a pair of opposite edges whose strengths differ: one below 1,
\* the other equal to 1.
C29_Witness ==
  /\ AfterMining
  /\ \E e \in DOMAIN sink.assoc :
       /\ sink.assoc[e].correlation_strength[1][1] < sink.assoc[e].correlation_strength[1][2]
       /\ sink.assoc[<<e[2], e[1]>>].correlation_strength[1][1]
            = sink.assoc[<<e[2], e[1]>>].correlation_strength[1][2]

====
